---- MODULE Spec2Model ----
(***************************************************************************)
(* Verification model of the highlight core of Mark My Search:             *)
(*   - the request coalescer (requestCallFn),                              *)
(*   - the content script's message handler and its queuing gate,          *)
(*   - the EngineManager (setEngine / applyEngine / start / end),          *)
(*   - the overlay (PAINT) engine's flow cache over a mutating tree,       *)
(*   - the DOM-splitting (ELEMENT) engine.                                 *)
(* Each component has its own specification over the shared variables; a   *)
(* specification leaves the variables of the other components untouched.   *)
(***************************************************************************)
EXTENDS Integers, Sequences, FiniteSets, TLC

VARIABLES
    \* ---- request coalescer (requestCallFn) ----
    waitDuration,             \* parameter of requestCallFn, in ms
    reschedulingDelayMax,     \* parameter of requestCallFn, in ms
    now,                      \* Date.now(), in ms
    timeRequestAcceptedLast,  \* closure variable of requestCallFn
    requestCount,             \* closure variable of requestCallFn
    timers,                   \* pending setTimeout callbacks: their due times, in firing order
    oldestUnserved,           \* time of the oldest request not yet followed by call(); -1 if none
    calls,                    \* number of invocations of call() so far
    \* ---- content script: messageHandleHighlight ----
    compat,                   \* compatibility.highlight: [highlightEngine, paintEngine]
    arrived,                  \* number of messages received so far (handler h handles message h)
    hKind,                    \* h -> message.highlighter.engine of message h, or "none"
    hPc,                      \* h -> where the async body of handler h stands
    queuingPromise,           \* the gate: a promise id, or None
    resolved,                 \* the promises that are resolved
    reactions,                \* promise id -> the reactions registered on it, in order
    microtasks,               \* the microtask queue
    highlighterCurrent,       \* highlighter.current: [by, class], or None
    log,                      \* the effects applied so far: <<handler, effect>>
    \* ---- EngineManager ----
    mgHighlighting,           \* #highlighting: a terms/hues set (1..NumTermSets), or 0 for null
    engineData,               \* #engineData: the installed engine (its id), or 0 for null
    setCalls,                 \* number of setEngine calls so far; call c constructs engine c
    mgPending,                \* the setEngine calls whose construction is in flight
    engClass,                 \* engine id -> "ELEMENT" | "PAINT" ("none": not requested yet)
    engBuilt,                 \* engine id -> the engine object has been constructed
    engObserving,             \* engine id -> its mutation observer is connected
    engTerms,                 \* engine id -> engine.terms.current (0: empty)
    engShown,                 \* engine id -> its highlights are rendered in the page
    engTornDown,              \* engine id -> deactivate() has been called on it
    restarted,                \* an engine was started after it had been torn down
    removedSince,             \* removeEngine was called after the latest setEngine
    mgApplied,                \* what the last applyEngine call started: <<engine, terms/hues
                              \* set>>, or <<0, 0>> when it started nothing
    \* ---- the document, and the overlay (PAINT) engine ----
    attached,                 \* the nodes linked to their parent (body is always in the document)
    text,                     \* text node -> its textContent, a sequence of characters
    elementInfo,              \* element -> element[ElementProperty.INFO]: [has, id, flows]
    highlightingIds,          \* #highlightingIds: the next id the generator yields
    ptTerms,                  \* terms.current
    ptHues,                   \* hues.current
    ptObserving,              \* the MutationObserver of #mutationUpdates is connected
    records,                  \* the mutation records queued for the observer's callback
    ptPhase,                  \* "absent" (no overlay engine) | "new" | "started" | "failed" (startHighlighting threw) | "ended":
                              \* the last of start/endHighlighting
    processed,                \* the records the callback's last run processed; <<>> once the
                              \* document or the highlighting has changed again
    ptRepeat,                 \* consecutive startHighlighting calls with the same terms and no
                              \* mutation, delivery or end in between (0, 1, or 2 for "2 or more")
    \* ---- the DOM-splitting (ELEMENT) engine and its document ----
    elDom,                    \* the document: node id -> [tag, data, term, parent, kids, known]
    elTerms,                  \* terms.current
    elHues,                   \* hues.current
    elObserving,              \* the MutationObserver of #mutationUpdates is connected
    elPhase,                  \* "absent" (no such engine) | "new" | "started" | "ended"
    elStarts,                 \* number of startHighlighting calls so far
    elRepeat,                 \* as ptRepeat
    \* ---- the segmenter and the matcher, applied on their own ----
    fnRoot,                   \* the element getTextFlows was last applied under (0: not yet)
    fnFlows,                  \* what getTextFlows(fnRoot.firstChild) returned
    fnPassed,                 \* the flows calculateBoxesInfo passed to cacheFlowWithBoxesInfo
    fnTerms,                  \* the terms matchInTextFlow was last applied to
    fnFlow,                   \* the text flow it was applied to
    fnSpans,                  \* per term reached, per match: [start, end, boxes, threw]
    \* ---- the DOM-splitting engine's mutation updates; the term list of the page ----
    mutationQueue,            \* the records queued for the observer: [target, type, own]
                              \* (own: the edit recorded was made by the engine itself)
    obElements,               \* `elements`, the set the observer collects, in insertion order
    highlightIsPending,       \* closure variable: a deferred highlightElements is scheduled
    throttling,               \* closure variable of highlightElementsLimited
    periodHighlightCount,     \* closure variable of highlightElementsLimited
    elStale,                  \* the engine has changed the highlights since its
                              \* highlighting-updated listeners were last called
    elMutations,              \* number of changes page scripts have made so far
    elAwaiting,               \* the elements page scripts have changed text in since the
                              \* engine last highlighted them
    ownPasses,                \* highlighting passes of the observer since the last change
                              \* by page scripts and the last start/endHighlighting
    burst,                    \* the requests made to the coalescer: the time of the first
                              \* and of the last, and their number
    termsUpdate,              \* the term list of the last update the content script got
    wkDoc,                    \* the document a term walker walks
    wkSelected,               \* the node of the selection, 0 for none
    wkFocused,                \* the active element, 0 for the body
    wkWalker,                 \* the TreeWalker of focusOnTermJump and its call's arguments
    wkResult,                 \* what the last call of a term walker returned
    elFlowText,               \* the text of the document when the DOM-splitting engine
                              \* last began to highlight it
    iqCount,                  \* number of messages the content script has received
    iqArrived,                \* the messages kept before initialization, in the order of arrival
    messageQueue,             \* the messages the uninitialized handler keeps, the latest first
    iqRequest,                \* the state of the initializationGet request
    iqBody,                   \* document.body exists
    iqObserving,              \* the observer waiting for document.body is connected
    iqListener,               \* the listener registered for chrome.runtime.onMessage
    iqHanded,                 \* the messages messageHandleHighlight was called with, in call order
    warnings,                 \* the warnings assert wrote to the console
    tmDoc,                    \* the document the scroll markers are made for
    tmGutterAttached,         \* the gutter of the scroll markers is in the document
    tmMarkers,                \* the children of the gutter: [container, term, offset]
    elementStyleRuleMap,      \* the elements the overlay engine holds a style rule for, each with the boxes of the rule
    styleSheet,               \* the rules the style manager was last given, as elementStyleRuleMap then was
    elementsVisible,          \* the elements the visibility observer found intersecting
    styleApplied,             \* the last step of the engine ended with applyStyleRules
    cmHandler,                \* the command handler of the build: respondToCommand or produceEffectOnCommand
    cmTermCount,              \* terms.length
    focusedIdx,               \* focusedIdx of the command handler, when it is a number
    focusedIsNull,            \* focusedIdx is null
    selectModeFocus,          \* selectModeFocus of the command handler
    cmRead                    \* the read of terms[focusedIdx] the last command made, if any

rcVars == <<waitDuration, reschedulingDelayMax, now, timeRequestAcceptedLast, requestCount, timers, oldestUnserved, calls, burst>>

mhVars == <<compat, arrived, hKind, hPc, queuingPromise, resolved, reactions, microtasks,
            highlighterCurrent, log>>

mgVars == <<mgHighlighting, engineData, setCalls, mgPending, engClass, engBuilt, engObserving,
            engTerms, engShown, engTornDown, restarted, removedSince,
            mgApplied>>

ptVars == <<attached, text, elementInfo, highlightingIds, ptTerms, ptHues, ptObserving, records,
            ptPhase, processed, ptRepeat>>

elVars == <<elDom, elTerms, elHues, elObserving, elPhase, elStarts, elRepeat>>

fnVars == <<fnRoot, fnFlows, fnPassed, fnTerms, fnFlow, fnSpans>>

obEngineVars == <<mutationQueue, obElements, highlightIsPending, throttling,
                  periodHighlightCount, elStale, elMutations, elAwaiting, ownPasses>>
obVars == <<obEngineVars, termsUpdate>>
wkVars == <<wkDoc, wkSelected, wkFocused, wkWalker, wkResult>>
mkVars == <<elFlowText>>

iqVars == <<iqCount, iqArrived, messageQueue, iqRequest, iqBody, iqObserving, iqListener, iqHanded, warnings>>

tmVars == <<tmDoc, tmGutterAttached, tmMarkers>>

stVars == <<elementStyleRuleMap, styleSheet, elementsVisible, styleApplied>>

cmVars == <<cmHandler, cmTermCount, focusedIdx, focusedIsNull, selectModeFocus, cmRead>>

vars == <<rcVars, mhVars, mgVars, ptVars, elVars, fnVars, obVars, wkVars, mkVars, iqVars, tmVars, stVars, cmVars>>

\* What each component's actions leave alone: the other components' variables.
rcOthers == <<mhVars, mgVars, ptVars, elVars, fnVars, obVars, wkVars, mkVars, iqVars, tmVars, stVars, cmVars>>
mhOthers == <<rcVars, mgVars, ptVars, elVars, fnVars, obVars, wkVars, mkVars, iqVars, tmVars, stVars, cmVars>>
mgOthers == <<rcVars, mhVars, ptVars, elVars, fnVars, obVars, wkVars, mkVars, iqVars, tmVars, stVars, cmVars>>
ptOthers == <<rcVars, mhVars, mgVars, elVars, fnVars, obVars, wkVars, mkVars, iqVars, tmVars, stVars, cmVars>>
elOthers == <<rcVars, mhVars, mgVars, ptVars, fnVars, obVars, wkVars, mkVars, iqVars, tmVars, stVars, cmVars>>
fnOthers == <<rcVars, mhVars, mgVars, elVars, obVars, wkVars, mkVars, iqVars, tmVars, stVars, cmVars>>
obOthers == <<rcVars, mhVars, mgVars, fnVars, wkVars, mkVars, iqVars, tmVars, stVars, cmVars>>
wkOthers == <<rcVars, mhVars, mgVars, ptVars, elVars, fnVars, obVars, mkVars, iqVars, tmVars, stVars, cmVars>>
mkOthers == <<rcVars, mhVars, mgVars, ptVars, fnVars, obVars, wkVars, iqVars, tmVars, stVars, cmVars>>
iqOthers == <<rcVars, mhVars, mgVars, ptVars, elVars, fnVars, obVars, wkVars, mkVars, tmVars, stVars, cmVars>>
tmOthers == <<rcVars, mhVars, mgVars, ptVars, elVars, fnVars, obVars, wkVars, mkVars, iqVars, stVars, cmVars>>
stOthers == <<rcVars, mhVars, mgVars, ptVars, elVars, fnVars, obVars, wkVars, mkVars, iqVars, tmVars, cmVars>>

\* The mutation updates of the DOM-splitting engine as constructed, and no
\* update of the terms received.
ObIdle ==
    /\ mutationQueue = <<>>
    /\ obElements = <<>>
    /\ highlightIsPending = FALSE
    /\ throttling = FALSE
    /\ periodHighlightCount = 0
    /\ elStale = FALSE
    /\ elMutations = 0
    /\ elAwaiting = {}
    /\ ownPasses = 0
    /\ termsUpdate = <<>>

None == "None"

Min(a, b) == IF a <= b THEN a ELSE b
Max(a, b) == IF a >= b THEN a ELSE b

(***************************************************************************)
(* requestCallFn(call, waitDuration, reschedulingDelayMax)                 *)
(***************************************************************************)

\* The parameters the coalescer is created with, scaled down from the callers'
\* (50, 500) and (200, 2000) so that the clock can run past the maximum delay.
WaitDurations == {20, 40}
ReschedulingDelayMaxes == {80, 120}
\* "Arbitrary small amount added to account for lag".
timerLag == 20
reschedulingRequestCountMargin == 1

\* Model bounds.
TimeStart == 100      \* Date.now() at the first step (any value > waitDuration)
TimeSpan == 240       \* the clock stops TimeSpan ms after TimeStart
TickMs == 20          \* granularity of the passage of time
MaxRequestCount == 3  \* requests are withheld while requestCount has this value

\* No request has been made.
NoBurst == [first |-> -1, last |-> -1, count |-> 0]

\* The coalescer's variables in the specifications of the other components.
RcIdle ==
    /\ waitDuration = 0
    /\ reschedulingDelayMax = 0
    /\ now = 0
    /\ timeRequestAcceptedLast = 0
    /\ requestCount = 0
    /\ timers = <<>>
    /\ oldestUnserved = -1
    /\ calls = 0
    /\ burst = NoBurst

RcInit ==
    /\ waitDuration \in WaitDurations
    /\ reschedulingDelayMax \in ReschedulingDelayMaxes
    /\ now = TimeStart
    /\ timeRequestAcceptedLast = 0
    /\ requestCount = 0
    /\ timers = <<>>
    /\ oldestUnserved = -1
    /\ calls = 0
    /\ burst = NoBurst

\* scheduleRefresh whose timer has no delay
scheduleRefreshAtOnce(ts) == Append(ts, now)

\* One timer period: setTimeout(..., waitDuration + 20).
TimerPeriod == waitDuration + timerLag

\* scheduleRefresh(): every timer has the same delay, so timers fire in creation order.
scheduleRefresh(ts) == Append(ts, now + TimerPeriod)

\* generator.next(): the body of the `while (true)` loop up to `yield`.
generatorNext ==
    /\ requestCount < MaxRequestCount
    /\ requestCount' = requestCount + 1
    /\ IF now > timeRequestAcceptedLast + waitDuration
         THEN /\ timeRequestAcceptedLast' = now
              /\ timers' = scheduleRefresh(timers)
         ELSE UNCHANGED <<timeRequestAcceptedLast, timers>>
    /\ oldestUnserved' = IF oldestUnserved = -1 THEN now ELSE oldestUnserved
    /\ UNCHANGED <<waitDuration, reschedulingDelayMax, now, calls, rcOthers>>

\* A request made at any time.
Request ==
    /\ generatorNext
    /\ UNCHANGED burst

\* A request of a burst: the first request, or one made no later than
\* waitDuration after the first.
BurstRequest ==
    /\ burst.first = -1 \/ now <= burst.first + waitDuration
    /\ generatorNext
    /\ burst' = [first |-> IF burst.first = -1 THEN now ELSE burst.first,
                 last |-> now,
                 count |-> burst.count + 1]

\* The condition under which the timer callback postpones fulfilment.
Reschedules ==
    /\ requestCount > reschedulingRequestCountMargin
    /\ now < timeRequestAcceptedLast + reschedulingDelayMax

\* The setTimeout callback of scheduleRefresh, for the timer that is due.
TimerFire ==
    /\ timers # <<>>
    /\ Head(timers) <= now
    /\ requestCount' = 0
    /\ IF Reschedules
         THEN /\ timers' = scheduleRefresh(Tail(timers))
              /\ UNCHANGED <<oldestUnserved, calls>>
         ELSE /\ timers' = Tail(timers)
              /\ oldestUnserved' = -1
              /\ calls' = calls + 1
    /\ UNCHANGED <<waitDuration, reschedulingDelayMax, now, timeRequestAcceptedLast, burst,
                   rcOthers>>

\* Time passes; a due timer fires before time passes further (no lag).
Tick ==
    /\ now < TimeStart + TimeSpan
    /\ (IF timers = <<>> THEN TRUE ELSE Head(timers) > now)
    /\ now' = IF timers = <<>> THEN now + TickMs ELSE Min(now + TickMs, Head(timers))
    /\ UNCHANGED <<waitDuration, reschedulingDelayMax, timeRequestAcceptedLast, requestCount,
                   timers, oldestUnserved, calls, burst, rcOthers>>

RcNext == Request \/ TimerFire \/ Tick

\* C1: every request is followed by an invocation of call within
\* reschedulingDelayMax plus one timer period, whatever the arrival pattern.
C1_BoundedLatency ==
    oldestUnserved # -1 => now - oldestUnserved <= reschedulingDelayMax + TimerPeriod

BurstNext == BurstRequest \/ TimerFire \/ Tick

\* C30: a burst of requests, each made no later than waitDuration after the
\* first, followed by silence, causes exactly one invocation of call, and
\* the invocation comes after the last request of the burst: call is never
\* invoked twice, no request is made after the invocation, and when no timer
\* is left the invocation has been made.
C30_BurstIsServedOnce ==
    burst.first # -1 =>
        /\ calls <= 1
        /\ calls = 1 => (oldestUnserved = -1 /\ now > burst.last)
        /\ timers = <<>> => calls = 1

\* A burst of several requests made at different times has been served, the
\* timer having been rescheduled once, and no timer is left.
C30_Witness ==
    /\ burst.count >= 2
    /\ burst.last > burst.first
    /\ calls = 1
    /\ timers = <<>>
    /\ now = burst.first + 2 * TimerPeriod

(***************************************************************************)
(* content.mts: messageHandleHighlight and its queuing gate                *)
(***************************************************************************)

MaxMessages == 3     \* messages received in one run

Handlers == 1..MaxMessages
EngineChoices == {"ELEMENT", "PAINT", "HIGHLIGHT"}
MessageKinds == {"none"} \cup EngineChoices

\* Promise ids: the engine import, the paint method load and the PAINT branch's
\* `new Promise` of handler h.
PEngine(h) == <<"engine", h>>
PMethod(h) == <<"method", h>>
PQueue(h) == <<"queue", h>>
PromiseIds == {<<k, h>> : k \in {"engine", "method", "queue"}, h \in Handlers}

\* The message handler's variables in the specifications of the other components.
MhIdle ==
    /\ compat = [highlightEngine |-> FALSE, paintEngine |-> FALSE]
    /\ arrived = 0
    /\ hKind = [h \in Handlers |-> "none"]
    /\ hPc = [h \in Handlers |-> "idle"]
    /\ queuingPromise = None
    /\ resolved = {}
    /\ reactions = [p \in PromiseIds |-> <<>>]
    /\ microtasks = <<>>
    /\ highlighterCurrent = None
    /\ log = <<>>

MhInit ==
    /\ compat \in [highlightEngine : BOOLEAN, paintEngine : BOOLEAN]
    /\ arrived = 0
    /\ hKind = [h \in Handlers |-> "none"]
    /\ hPc = [h \in Handlers |-> "idle"]
    /\ queuingPromise = None
    /\ resolved = {}
    /\ reactions = [p \in PromiseIds |-> <<>>]
    /\ microtasks = <<>>
    /\ highlighterCurrent = None
    /\ log = <<>>

\* A selection that follows the preference whatever the flags say.
EngineBranchPreferred(kind) == kind

\* The branch of the engine selection taken for message.highlighter.engine = kind.
EngineBranch(kind) ==
    IF kind = "HIGHLIGHT" /\ compat.highlightEngine THEN "HIGHLIGHT"
    ELSE IF kind = "PAINT" /\ compat.paintEngine THEN "PAINT"
    ELSE "ELEMENT"

Resume(h) == [type |-> "resume", h |-> h]
ThenMethod(h) == [type |-> "thenMethod", h |-> h]
ResolveQueue(h) == [type |-> "resolveQueue", h |-> h]

\* `await p` / `p.then(r)`: reaction r runs as a microtask once p is resolved.
\* Gives the pair <<reactions, microtasks>> after registering r on p.
Register(p, r, reacts, micro) ==
    IF p \in resolved
      THEN <<reacts, Append(micro, r)>>
      ELSE <<[reacts EXCEPT ![p] = Append(@, r)], micro>>

\* The handler body from styleElementsInsert() to its first await or its end,
\* run by handler h with the microtask queue being micro.
EnterBody(h, kind, micro) ==
    IF kind = "none"
      THEN \* no engine switch: the rest of the body runs synchronously
           /\ log' = Append(log, <<h, "apply">>)
           /\ hPc' = [hPc EXCEPT ![h] = "done"]
           /\ microtasks' = micro
           /\ UNCHANGED <<queuingPromise, reactions, highlighterCurrent>>
      ELSE \* highlighter.current?.endHighlighting(), then the import is started
           /\ log' = Append(log, <<h, "end">>)
           /\ hPc' = [hPc EXCEPT ![h] = "engine"]
           /\ microtasks' = micro
           /\ IF EngineBranch(kind) = "PAINT"
                THEN /\ queuingPromise' = PQueue(h)
                     /\ reactions' = [reactions EXCEPT
                            ![PEngine(h)] = <<ThenMethod(h), Resume(h)>>]
                ELSE /\ queuingPromise' = PEngine(h)
                     /\ reactions' = [reactions EXCEPT ![PEngine(h)] = <<Resume(h)>>]
           /\ UNCHANGED highlighterCurrent

\* chrome.runtime.onMessage delivers message h with message.highlighter = kind.
Arrive(kind) ==
    /\ microtasks = <<>>
    /\ arrived < MaxMessages
    /\ LET h == arrived + 1 IN
       /\ arrived' = h
       /\ hKind' = [hKind EXCEPT ![h] = kind]
       /\ IF queuingPromise # None
            THEN LET reg == Register(queuingPromise, Resume(h), reactions, microtasks) IN
                 /\ hPc' = [hPc EXCEPT ![h] = "gate"]
                 /\ reactions' = reg[1]
                 /\ microtasks' = reg[2]
                 /\ UNCHANGED <<queuingPromise, highlighterCurrent, log>>
            ELSE EnterBody(h, kind, microtasks)
    /\ UNCHANGED <<compat, resolved, mhOthers>>

\* The promises a loader will resolve: started imports and paint method loads.
Loading ==
    {PEngine(h) : h \in {x \in Handlers : hPc[x] = "engine"}}
    \cup {PMethod(h) : h \in {x \in Handlers : hPc[x] \in {"engine", "method"}
                                             /\ EngineBranch(hKind[x]) = "PAINT"}}

\* An import() or PaintMethodLoader.loadMethod() promise is resolved.
ResolveLoad(p) ==
    /\ microtasks = <<>>
    /\ p \in Loading \ resolved
    /\ resolved' = resolved \cup {p}
    /\ microtasks' = reactions[p]
    /\ reactions' = [reactions EXCEPT ![p] = <<>>]
    /\ UNCHANGED <<compat, arrived, hKind, hPc, queuingPromise, highlighterCurrent, log, mhOthers>>

\* After the awaited engine (and method) modules: the engine is constructed and
\* installed, the gate is cleared, and the rest of the body runs synchronously.
FinishBody(h, micro) ==
    /\ highlighterCurrent' = [by |-> h, class |-> EngineBranch(hKind[h])]
    /\ queuingPromise' = None
    /\ log' = log \o <<<<h, "install">>, <<h, "apply">>>>
    /\ hPc' = [hPc EXCEPT ![h] = "done"]
    /\ microtasks' = micro
    /\ UNCHANGED reactions

\* The event loop runs the first microtask.
RunMicrotask ==
    /\ microtasks # <<>>
    /\ LET r == Head(microtasks)
           rest == Tail(microtasks)
           h == r.h
       IN CASE r.type = "resume" /\ hPc[h] = "gate" ->
                 /\ EnterBody(h, hKind[h], rest)
                 /\ UNCHANGED resolved
            [] r.type = "resume" /\ hPc[h] = "engine" /\ EngineBranch(hKind[h]) = "PAINT" ->
                 \* `await methodPromise` inside the constructor call
                 LET reg == Register(PMethod(h), Resume(h), reactions, rest) IN
                 /\ hPc' = [hPc EXCEPT ![h] = "method"]
                 /\ reactions' = reg[1]
                 /\ microtasks' = reg[2]
                 /\ UNCHANGED <<queuingPromise, resolved, highlighterCurrent, log>>
            [] r.type = "resume" /\ hPc[h] = "engine" /\ EngineBranch(hKind[h]) # "PAINT" ->
                 /\ FinishBody(h, rest)
                 /\ UNCHANGED resolved
            [] r.type = "resume" /\ hPc[h] = "method" ->
                 /\ FinishBody(h, rest)
                 /\ UNCHANGED resolved
            [] r.type = "thenMethod" ->
                 \* enginePromise.then(() => methodPromise.then(() => resolve()))
                 LET reg == Register(PMethod(h), ResolveQueue(h), reactions, rest) IN
                 /\ reactions' = reg[1]
                 /\ microtasks' = reg[2]
                 /\ UNCHANGED <<hPc, queuingPromise, resolved, highlighterCurrent, log>>
            [] r.type = "resolveQueue" ->
                 /\ resolved' = resolved \cup {PQueue(h)}
                 /\ microtasks' = rest \o reactions[PQueue(h)]
                 /\ reactions' = [reactions EXCEPT ![PQueue(h)] = <<>>]
                 /\ UNCHANGED <<hPc, queuingPromise, highlighterCurrent, log>>
    /\ UNCHANGED <<compat, arrived, hKind, mhOthers>>

MhNext ==
    \/ \E kind \in MessageKinds : Arrive(kind)
    \/ \E p \in PromiseIds : ResolveLoad(p)
    \/ RunMicrotask

\* What the engine of a class needs of the browser: the flag its branch of the
\* selection tests; the branch of the DOM-splitting engine tests none.
capabilityMet(class) ==
    \/ class = "ELEMENT"
    \/ class = "HIGHLIGHT" /\ compat.highlightEngine
    \/ class = "PAINT" /\ compat.paintEngine

\* highlighter.current holds an engine: one has been constructed and assigned.
engineInstalled == \E i \in 1..Len(log) : log[i][2] = "install"

\* C32: once a message that selects an engine has been handled to its end, an
\* engine is installed, and the engine installed is always one whose flag is
\* set (or the DOM-splitting engine, which needs none), whatever engine the
\* messages preferred and whatever the flags are.
C32_BackendInstalledAndCapable ==
    /\ \A h \in Handlers :
          (hPc[h] = "done" /\ hKind[h] # "none") => engineInstalled
    /\ engineInstalled => capabilityMet(highlighterCurrent.class)

\* A message preferring an engine whose flag is off has been handled to its
\* end, and the engine installed for it is the DOM-splitting one.
C32_Witness ==
    \E h \in Handlers :
        /\ hPc[h] = "done"
        /\ hKind[h] \in {"HIGHLIGHT", "PAINT"}
        /\ ~capabilityMet(hKind[h])
        /\ engineInstalled
        /\ highlighterCurrent.by = h
        /\ highlighterCurrent.class = "ELEMENT"

\* C2: messages apply in arrival order: no effect of a later message is applied
\* before all effects of an earlier message have been applied.
C2_ArrivalOrder ==
    \A i, j \in 1..Len(log) : i < j => log[i][1] <= log[j][1]


(***************************************************************************)
(* EngineManager                                                           *)
(***************************************************************************)

MaxSetEngine == 3    \* setEngine calls in one run
NumTermSets == 2     \* distinct (terms, hues) arguments of startHighlighting

EngineIds == 1..MaxSetEngine
EngineClasses == {"ELEMENT", "PAINT"}

MgInit ==
    /\ mgHighlighting = 0
    /\ engineData = 0
    /\ setCalls = 0
    /\ mgPending = {}
    /\ engClass = [e \in EngineIds |-> "none"]
    /\ engBuilt = [e \in EngineIds |-> FALSE]
    /\ engObserving = [e \in EngineIds |-> FALSE]
    /\ engTerms = [e \in EngineIds |-> 0]
    /\ engShown = [e \in EngineIds |-> FALSE]
    /\ engTornDown = [e \in EngineIds |-> FALSE]
    /\ restarted = FALSE
    /\ removedSince = FALSE
    /\ mgApplied = <<0, 0>>

\* engine.startHighlighting(terms, hues) on engine e: both engines connect their
\* mutation observer and render the highlights.
EngineStart(e, t) ==
    /\ engObserving' = [engObserving EXCEPT ![e] = TRUE]
    /\ engTerms' = [engTerms EXCEPT ![e] = t]
    /\ engShown' = [engShown EXCEPT ![e] = TRUE]
    /\ restarted' = (restarted \/ engTornDown[e])

\* The observer flag after engine.endHighlighting(): ElementEngine disconnects its
\* observer, PaintEngine does not touch it.
ObservingAfterEnd(class, observing) ==
    IF class = "ELEMENT" THEN FALSE ELSE observing

\* The rendering flag after engine.endHighlighting(): ElementEngine restores the
\* elements; PaintEngine filters no box out and leaves its style rules applied.
ShownAfterEnd(class, shown) ==
    IF class = "ELEMENT" THEN FALSE ELSE shown

\* engine.endHighlighting() on engine e.
EngineEnd(e) ==
    /\ engObserving' = [engObserving EXCEPT ![e] = ObservingAfterEnd(engClass[e], @)]
    /\ engShown' = [engShown EXCEPT ![e] = ShownAfterEnd(engClass[e], @)]
    /\ engTerms' = [engTerms EXCEPT ![e] = 0]

\* deactivateEngine(): engine.deactivate() on the installed engine, if any.
\* deactivate() is endHighlighting(); PaintEngine then deactivates its style managers.
deactivateEngine ==
    IF engineData = 0
      THEN UNCHANGED <<engObserving, engShown, engTerms, engTornDown>>
      ELSE /\ engObserving' = [engObserving EXCEPT
                  ![engineData] = ObservingAfterEnd(engClass[engineData], @)]
           /\ engShown' = [engShown EXCEPT ![engineData] = FALSE]
           /\ engTerms' = [engTerms EXCEPT ![engineData] = 0]
           /\ engTornDown' = [engTornDown EXCEPT ![engineData] = TRUE]

\* EngineManager.startHighlighting(terms, hues)
startHighlighting(t) ==
    /\ mgHighlighting' = t
    /\ IF engineData # 0
         THEN EngineStart(engineData, t)
         ELSE UNCHANGED <<engObserving, engTerms, engShown, restarted>>
    /\ UNCHANGED <<engineData, setCalls, mgPending, engClass, engBuilt, engTornDown,
                   removedSince, mgApplied, mgOthers>>

\* EngineManager.endHighlighting()
endHighlighting ==
    /\ mgHighlighting' = 0
    /\ IF engineData # 0
         THEN EngineEnd(engineData)
         ELSE UNCHANGED <<engObserving, engTerms, engShown>>
    /\ UNCHANGED <<engineData, setCalls, mgPending, engClass, engBuilt, engTornDown,
                   restarted, removedSince, mgApplied, mgOthers>>

\* EngineManager.setEngine(preference), up to its await: the installed engine is
\* deactivated (and stays installed) and the construction of the new one starts.
setEngine(class) ==
    /\ setCalls < MaxSetEngine
    /\ deactivateEngine
    /\ setCalls' = setCalls + 1
    /\ mgPending' = mgPending \cup {setCalls + 1}
    /\ engClass' = [engClass EXCEPT ![setCalls + 1] = class]
    /\ removedSince' = FALSE
    /\ UNCHANGED <<mgHighlighting, engineData, engBuilt, restarted, mgApplied, mgOthers>>

\* The imports of a call resolve after those of every earlier call for the same
\* modules; calls for different engine classes complete in any order.
CanSettle(c) ==
    /\ c \in mgPending
    /\ \A d \in mgPending : (d < c) => engClass[d] # engClass[c]

\* setEngine after its await: constructEngineData / constructAndLinkEngineData have
\* built engine c, and it is assigned to #engineData.
setEngineSettles(c) ==
    /\ CanSettle(c)
    /\ mgPending' = mgPending \ {c}
    /\ engBuilt' = [engBuilt EXCEPT ![c] = TRUE]
    /\ engineData' = c
    /\ UNCHANGED <<mgHighlighting, setCalls, engClass, engObserving, engTerms, engShown,
                   engTornDown, restarted, removedSince, mgApplied, mgOthers>>

\* applyEngine() that starts the installed backend with the terms the backend
\* holds itself.
applyEngineOfEngine ==
    /\ IF engineData # 0
         THEN EngineStart(engineData, engTerms[engineData])
         ELSE UNCHANGED <<engObserving, engTerms, engShown, restarted>>
    /\ mgApplied' = IF engineData # 0 THEN <<engineData, engTerms[engineData]>> ELSE <<0, 0>>
    /\ UNCHANGED <<mgHighlighting, engineData, setCalls, mgPending, engClass, engBuilt,
                   engTornDown, removedSince, mgOthers>>

\* EngineManager.applyEngine()
applyEngine ==
    /\ IF mgHighlighting # 0 /\ engineData # 0
         THEN EngineStart(engineData, mgHighlighting)
         ELSE UNCHANGED <<engObserving, engTerms, engShown, restarted>>
    /\ mgApplied' = IF mgHighlighting # 0 /\ engineData # 0
                    THEN <<engineData, mgHighlighting>> ELSE <<0, 0>>
    /\ UNCHANGED <<mgHighlighting, engineData, setCalls, mgPending, engClass, engBuilt,
                   engTornDown, removedSince, mgOthers>>

\* EngineManager.removeEngine()
removeEngine ==
    /\ deactivateEngine
    /\ engineData' = 0
    /\ removedSince' = TRUE
    /\ UNCHANGED <<mgHighlighting, setCalls, mgPending, engClass, engBuilt, restarted,
                   mgApplied, mgOthers>>

MgNext ==
    \/ \E t \in 1..NumTermSets : startHighlighting(t)
    \/ endHighlighting
    \/ \E class \in EngineClasses : setEngine(class)
    \/ \E c \in EngineIds : setEngineSettles(c)
    \/ applyEngine
    \/ removeEngine

\* A backend is active when it observes mutations or holds rendered highlights.
EngineActive(e) == engBuilt[e] /\ (engObserving[e] \/ engShown[e])

\* C3: once every setEngine call has settled, the installed backend is the one
\* requested by the latest call, whichever construction finished first.
C3_LatestSetEngineWins ==
    (mgPending = {} /\ setCalls > 0 /\ ~removedSince) => engineData = setCalls

\* C4: at most one backend is active; a torn-down backend is never started again;
\* every constructed backend other than the installed one has been deactivated.
C4_AtMostOneActive ==
    /\ \A e, f \in EngineIds : (EngineActive(e) /\ EngineActive(f)) => e = f
    /\ ~restarted
    /\ \A e \in EngineIds : (engBuilt[e] /\ e # engineData) => engTornDown[e]

\* C22: applyEngine starts the installed backend with exactly the terms and
\* hues of the most recent startHighlighting call, one issued while the
\* backend was loading included, and starts nothing when endHighlighting was
\* called after that call.  The terms kept for it are those of the latest
\* startHighlighting, none after endHighlighting, and no other operation
\* changes them.
C22_ApplyStartsLatest ==
    /\ [][\A t \in 1..NumTermSets : startHighlighting(t) => mgHighlighting' = t]_vars
    /\ [][endHighlighting => mgHighlighting' = 0]_vars
    /\ [][mgHighlighting' # mgHighlighting =>
            (endHighlighting \/ \E t \in 1..NumTermSets : startHighlighting(t))]_vars
    /\ [][applyEngine =>
            IF mgHighlighting # 0 /\ engineData # 0
            THEN /\ engTerms'[engineData] = mgHighlighting
                 /\ engObserving'[engineData]
                 /\ engShown'[engineData]
                 /\ \A e \in EngineIds \ {engineData} :
                        /\ engTerms'[e] = engTerms[e]
                        /\ engObserving'[e] = engObserving[e]
                        /\ engShown'[e] = engShown[e]
            ELSE UNCHANGED <<engTerms, engObserving, engShown>>]_vars

\* applyEngine has started the backend of a later setEngine call with terms
\* that startHighlighting gave while that backend was loading (the backend
\* holds them and no backend held them before it was installed).
C22_Witness ==
    /\ setCalls >= 2
    /\ mgPending = {}
    /\ engineData = setCalls
    /\ mgApplied = <<engineData, mgHighlighting>>
    /\ mgHighlighting # 0
    /\ engTerms[engineData] = mgHighlighting
    /\ \A e \in EngineIds \ {engineData} : engTerms[e] = 0

\* applyEngine has started nothing on an installed backend, endHighlighting
\* having come after the last startHighlighting.
C22_WitnessEnded ==
    /\ engineData # 0
    /\ engBuilt[engineData]
    /\ mgApplied = <<0, 0>>
    /\ mgHighlighting = 0
    /\ engTerms[engineData] = 0
    /\ ~engShown[engineData]

(***************************************************************************)
(* The document                                                            *)
(*                                                                         *)
(* A fixed universe of nodes, numbered in document order.  A node is       *)
(* either linked to its parent or detached from it (with its subtree),     *)
(* and a text node's content changes.  The document holds no <a> element,  *)
(* so getAncestorHighlightable(node) is node.parentElement.                *)
(*                                                                         *)
(*   body(1) > [ p(2) > [ #text(3),                                        *)
(*                        b(4) > [ br(5), span(6) > [ #text(7) ],          *)
(*                                 #text(8) ],                             *)
(*                        hr(9), #text(10) ],                              *)
(*               div(11) > [ #text(12), script(13) > [ #text(14) ] ],      *)
(*               #text(15) ]                                               *)
(***************************************************************************)

\* node -> the element it is a child of when it is linked (0: none).
HomeParent == <<0, 1, 2, 2, 4, 4, 6, 4, 2, 2, 1, 11, 11, 13, 1>>

\* node -> "text", or the class of the element's tag under highlightTags:
\* "flow" (b, span: in highlightTags.flow), "reject" (script: in
\* highlightTags.reject), "block" (body, p, br, hr, div: any other tag).
TagClass == <<"block", "block", "text", "flow", "block", "flow", "text", "text", "block",
              "text", "block", "text", "reject", "text", "text">>

Nodes == 1..Len(HomeParent)
NodeSeq == [n \in Nodes |-> n]
Body == 1
TextNodes == {n \in Nodes : TagClass[n] = "text"}
Elements == Nodes \ TextNodes

\* The nodes that page scripts remove and insert again, the text nodes whose
\* content they change, and the contents they write.
Removable == {8, 9}
MutableTexts == {7}
TextValues == {<<"a">>, <<"b">>}
\* The text after the last block: only in the documents that are segmented on
\* their own.
Trailing == {15}
PageNodes == Nodes \ Trailing
\* The content of the text nodes that scripts leave alone.
FixedText == [n \in TextNodes \ MutableTexts |->
                 IF n \in {3, 8} THEN <<"b">> ELSE IF n = 10 THEN <<"a">> ELSE <<"a", "b">>]

\* highlightTags.flow.has(tagName), highlightTags.reject.has(tagName)
flowHas(n) == TagClass[n] = "flow"
rejectHas(n) == TagClass[n] = "reject"

\* node.parentElement (0 for null)
parentElement(n) == IF n # Body /\ n \in attached THEN HomeParent[n] ELSE 0

\* node.childNodes and element.children, in order
HomeChildren == [n \in Nodes |-> SelectSeq(NodeSeq, LAMBDA m : HomeParent[m] = n)]
childNodes(n) == SelectSeq(HomeChildren[n], LAMBDA m : m \in attached)
children(n) == SelectSeq(childNodes(n), LAMBDA m : m \in Elements)

\* node.nextSibling (0 for null)
nextSibling(n) ==
    LET later == SelectSeq(childNodes(parentElement(n)), LAMBDA m : m > n)
    IN  IF parentElement(n) = 0 \/ later = <<>> THEN 0 ELSE Head(later)

\* ancestor.contains(node): node is ancestor itself or a descendant of it
RECURSIVE contains(_, _)
contains(ancestor, node) ==
    IF node = 0 THEN FALSE
    ELSE IF node = ancestor THEN TRUE
    ELSE contains(ancestor, parentElement(node))

InDocument(n) == contains(Body, n)

\* canHighlightElement(element): !element.closest(rejectSelector)
RECURSIVE canHighlightElement(_)
canHighlightElement(element) ==
    IF element = 0 THEN TRUE
    ELSE IF rejectHas(element) THEN FALSE
    ELSE canHighlightElement(parentElement(element))

\* A TreeWalker over the elements under body: previousNode() and nextNode()
\* from currentNode = n (0 for null).  Nodes are numbered in document order.
previousNode(n) ==
    LET before == {m \in Elements : m < n /\ InDocument(m)}
    IN  IF before = {} THEN 0 ELSE CHOOSE m \in before : \A k \in before : k <= m
nextNode(n) ==
    LET after == {m \in Elements : m > n /\ InDocument(m)}
    IN  IF after = {} THEN 0 ELSE CHOOSE m \in after : \A k \in after : m <= k

\* textFlow.map(node => node.textContent).join("")
RECURSIVE joinText(_)
joinText(textFlow) ==
    IF textFlow = <<>> THEN <<>> ELSE text[Head(textFlow)] \o joinText(Tail(textFlow))

\* getTextFlows without the break after an element's content: a flow runs on
\* past the end of a block.
RECURSIVE getTextFlowsOpenOnly(_, _)
getTextFlowsOpenOnly(siblings, textFlows) ==
    IF siblings = <<>> THEN textFlows
    ELSE LET node == Head(siblings)
             breaksFlow == ~flowHas(node)
             textFlow == textFlows[Len(textFlows)]
             opened == IF breaksFlow /\ (Len(textFlow) > 0 \/ Len(textFlows) = 1)
                       THEN Append(textFlows, <<>>) ELSE textFlows
             visited ==
                 IF node \in TextNodes
                 THEN [textFlows EXCEPT ![Len(textFlows)] = Append(@, node)]
                 ELSE IF rejectHas(node) THEN textFlows
                 ELSE getTextFlowsOpenOnly(childNodes(node), opened)
         IN  getTextFlowsOpenOnly(Tail(siblings), visited)

\* getTextFlows without the test of highlightTags.reject: the content of a
\* rejected element is collected like any other.
RECURSIVE getTextFlowsOfAll(_, _)
getTextFlowsOfAll(siblings, textFlows) ==
    IF siblings = <<>> THEN textFlows
    ELSE LET node == Head(siblings)
             breaksFlow == ~flowHas(node)
             textFlow == textFlows[Len(textFlows)]
             opened == IF breaksFlow /\ (Len(textFlow) > 0 \/ Len(textFlows) = 1)
                       THEN Append(textFlows, <<>>) ELSE textFlows
             inner == getTextFlowsOfAll(childNodes(node), opened)
             closed == IF breaksFlow /\ Len(inner[Len(inner)]) > 0
                       THEN Append(inner, <<>>) ELSE inner
             visited ==
                 IF node \in TextNodes
                 THEN [textFlows EXCEPT ![Len(textFlows)] = Append(@, node)]
                 ELSE IF childNodes(node) = <<>> THEN opened
                 ELSE closed
         IN  getTextFlowsOfAll(Tail(siblings), visited)

\* getTextFlows(node, textFlows): `siblings` is node followed by its next
\* siblings; the textFlow the code appends to is always the last of textFlows.
RECURSIVE getTextFlows(_, _)
getTextFlows(siblings, textFlows) ==
    IF siblings = <<>> THEN textFlows
    ELSE LET node == Head(siblings)
             breaksFlow == ~flowHas(node)
             textFlow == textFlows[Len(textFlows)]
             opened == IF breaksFlow /\ (Len(textFlow) > 0 \/ Len(textFlows) = 1)
                       THEN Append(textFlows, <<>>) ELSE textFlows
             inner == getTextFlows(childNodes(node), opened)
             closed == IF breaksFlow /\ Len(inner[Len(inner)]) > 0
                       THEN Append(inner, <<>>) ELSE inner
             visited ==
                 IF node \in TextNodes
                 THEN [textFlows EXCEPT ![Len(textFlows)] = Append(@, node)]
                 ELSE IF rejectHas(node) THEN textFlows
                 ELSE IF childNodes(node) = <<>> THEN opened
                 ELSE closed
         IN  getTextFlows(Tail(siblings), visited)

(***************************************************************************)
(* The overlay (PAINT) engine: the per-element cache                       *)
(*                                                                         *)
(* The engine's procedures read the document and update the cache; each is *)
(* an operator from the cache state c = [info, ids] (the elements' INFO    *)
(* properties and the id generator) to the cache state it leaves.  An      *)
(* element has the markmysearch-h_id attribute exactly when its id is set: *)
(* the two are set together and never removed.                             *)
(***************************************************************************)

\* The terms highlighted: a term is the phrase its pattern matches.
TermLists == {<< <<"a", "b">> >>, << <<"a", "b">>, <<"b">> >>}

\* An element without an INFO property; the id "" is -1.
NoInfo == [has |-> FALSE, id |-> -1, flows |-> <<>>]

RECURSIVE extendCache(_, _)
RECURSIVE extendCacheEach(_, _)
\* extendCache(element)
extendCache(c, element) ==
    IF rejectHas(element) THEN c
    ELSE LET modified == IF c.info[element].has THEN c
                         ELSE [c EXCEPT !.info[element] = [has |-> TRUE, id |-> -1, flows |-> <<>>]]
         IN  extendCacheEach(modified, children(element))
\* for (const child of element.children) this.extendCache(child)
extendCacheEach(c, elements) ==
    IF elements = <<>> THEN c
    ELSE extendCacheEach(extendCache(c, Head(elements)), Tail(elements))

RECURSIVE removeFlows(_, _)
RECURSIVE removeFlowsEach(_, _)
\* removeFlows(element)
removeFlows(c, element) ==
    IF rejectHas(element) THEN c
    ELSE LET cleared == IF c.info[element].has
                        THEN [c EXCEPT !.info[element].flows = <<>>] ELSE c
         IN  removeFlowsEach(cleared, children(element))
\* Array.from(element.children).forEach(child => this.removeFlows(child))
removeFlowsEach(c, elements) ==
    IF elements = <<>> THEN c
    ELSE removeFlowsEach(removeFlows(c, Head(elements)), Tail(elements))

\* A term is its phrase.  A phrase `x*` stands for the term in regex mode
\* (matchMode.regex) whose pattern is that phrase; any other phrase is matched
\* literally.
isRegex(term) == Len(term) = 2 /\ term[2] = "*"

\* The phrase of `term` is found in flowText at the (0-based) index i.
MatchesAt(flowText, term, i) ==
    /\ i + Len(term) <= Len(flowText)
    /\ \A k \in 1..Len(term) : flowText[i + k] = term[k]

\* How many times `character` is repeated in flowText from the index i on.
RECURSIVE repeatedAt(_, _, _)
repeatedAt(flowText, character, i) ==
    IF i < Len(flowText) /\ flowText[i + 1] = character
    THEN 1 + repeatedAt(flowText, character, i + 1)
    ELSE 0

\* The length of the match of the term's pattern at the index i; -1: no match.
matchLength(flowText, term, i) ==
    IF isRegex(term) THEN repeatedAt(flowText, term[1], i)
    ELSE IF MatchesAt(flowText, term, i) THEN Len(term)
    ELSE -1

\* flow.text.matchAll(pattern): the matches [index, length] from lastIndex i
\* on, leftmost first and not overlapping; after an empty match the next
\* search starts one character on.
RECURSIVE matchAll(_, _, _)
matchAllNext(flowText, term, i, length) ==
    IF length < 0 THEN matchAll(flowText, term, i + 1)
    ELSE <<[index |-> i, length |-> length]>> \o matchAll(flowText, term, i + Max(1, length))

matchAll(flowText, term, i) ==
    IF i > Len(flowText) THEN <<>>
    ELSE matchAllNext(flowText, term, i, matchLength(flowText, term, i))

\* node = textFlow[++i]; textStart = textEnd; textEnd += node.length
\* The position is [i, textStart, textEnd, threw]; i counts from 1 here.  Past
\* the last node of the flow `node` is undefined and node.length throws a
\* TypeError.
nextNodeOfFlow(textFlow, pos) ==
    IF pos.i + 1 > Len(textFlow) THEN [pos EXCEPT !.i = @ + 1, !.threw = TRUE]
    ELSE [i |-> pos.i + 1, textStart |-> pos.textEnd,
          textEnd |-> pos.textEnd + Len(text[textFlow[pos.i + 1]]), threw |-> FALSE]

\* while (textEnd <= highlightStart) { node = textFlow[++i]; ... }
RECURSIVE seekNode(_, _, _)
seekNode(textFlow, pos, highlightStart) ==
    IF ~pos.threw /\ pos.textEnd <= highlightStart
    THEN seekNode(textFlow, nextNodeOfFlow(textFlow, pos), highlightStart)
    ELSE pos

\* The loop below left after its first push: the match's first node only.
pushBoxesOnce(term, textFlow, pos, highlightStart, highlightEnd) ==
    IF pos.threw THEN [boxes |-> <<>>, pos |-> pos]
    ELSE [boxes |-> <<[term |-> term, node |-> textFlow[pos.i],
                       start |-> Max(0, highlightStart - pos.textStart),
                       end |-> Min(highlightEnd - pos.textStart, Len(text[textFlow[pos.i]]))]>>,
          pos |-> pos]

\* while (true) { flow.boxesInfo.push(...); if (highlightEnd <= textEnd) break; ... }
\* Gives the boxes pushed and the position the loop ends at.
RECURSIVE pushBoxes(_, _, _, _, _)
pushBoxesNext(box, rest) == [boxes |-> <<box>> \o rest.boxes, pos |-> rest.pos]

pushBoxes(term, textFlow, pos, highlightStart, highlightEnd) ==
    IF pos.threw THEN [boxes |-> <<>>, pos |-> pos]
    ELSE IF highlightEnd <= pos.textEnd
    THEN [boxes |-> <<[term |-> term, node |-> textFlow[pos.i],
                       start |-> Max(0, highlightStart - pos.textStart),
                       end |-> Min(highlightEnd - pos.textStart, Len(text[textFlow[pos.i]]))]>>,
          pos |-> pos]
    ELSE pushBoxesNext([term |-> term, node |-> textFlow[pos.i],
                        start |-> Max(0, highlightStart - pos.textStart),
                        end |-> Min(highlightEnd - pos.textStart, Len(text[textFlow[pos.i]]))],
                       pushBoxes(term, textFlow, nextNodeOfFlow(textFlow, pos),
                                 highlightStart, highlightEnd))

\* for (const match of matches) { ... }: for each match, in order, the match
\* and the boxes pushed for it; nothing for the matches after a TypeError.
RECURSIVE spansOfMatches(_, _, _, _)
spansOfMatchesNext(term, textFlow, match, matches, pushed) ==
    <<[start |-> match.index, end |-> match.index + match.length,
       boxes |-> pushed.boxes, threw |-> pushed.pos.threw]>>
    \o (IF pushed.pos.threw THEN <<>> ELSE spansOfMatches(term, textFlow, matches, pushed.pos))

spansOfMatches(term, textFlow, matches, pos) ==
    IF matches = <<>> THEN <<>>
    ELSE spansOfMatchesNext(term, textFlow, Head(matches), Tail(matches),
             pushBoxes(term, textFlow, seekNode(textFlow, pos, Head(matches).index),
                       Head(matches).index, Head(matches).index + Head(matches).length))

\* let i = 0; let node = textFlow[0]; let textStart = 0; let textEnd = node.length;
\* const matches = text.matchAll(pattern); for (const match of matches) ...
spansOfTerm(term, flowText, textFlow) ==
    spansOfMatches(term, textFlow, matchAll(flowText, term, 0),
                   [i |-> 1, textStart |-> 0, textEnd |-> Len(text[textFlow[1]]),
                    threw |-> FALSE])

\* Whether a TypeError was thrown for one of the matches.
spansThrew(spans) == \E k \in 1..Len(spans) : spans[k].threw

\* The boxes of the matches, in the order they were pushed.
RECURSIVE boxesOfMatches(_)
boxesOfMatches(spans) ==
    IF spans = <<>> THEN <<>> ELSE Head(spans).boxes \o boxesOfMatches(Tail(spans))

\* for (const term of terms) { ... }: the boxes pushed for a flow, and whether
\* the loop was left by a TypeError.
RECURSIVE boxesOfTerms(_, _)
boxesOfTermsNext(spans, terms, textFlow) ==
    IF spansThrew(spans) THEN [boxes |-> boxesOfMatches(spans), threw |-> TRUE]
    ELSE [boxesOfTerms(terms, textFlow) EXCEPT !.boxes = boxesOfMatches(spans) \o @]

boxesOfTerms(terms, textFlow) ==
    IF terms = <<>> THEN [boxes |-> <<>>, threw |-> FALSE]
    ELSE boxesOfTermsNext(spansOfTerm(Head(terms), joinText(textFlow), textFlow),
                          Tail(terms), textFlow)

\* getAncestorCommon(ancestor, node)
RECURSIVE getAncestorCommon(_, _)
getAncestorCommon(ancestor, node) ==
    IF contains(ancestor, node) THEN ancestor
    ELSE getAncestorCommon(parentElement(ancestor), node)

\* cacheFlowWithBoxesInfo(terms, textFlow) on the cache state c = [info, ids,
\* threw].  The flow is pushed to the ancestor's flows before its boxes are
\* found, so what a TypeError leaves is the flow with the boxes pushed so far
\* and no id given.
cacheFlowMatched(c, ancestor, flow, matched) ==
    IF matched.threw
    THEN [c EXCEPT !.info[ancestor].flows = Append(@, [flow EXCEPT !.boxesInfo = matched.boxes]),
                   !.threw = TRUE]
    ELSE IF matched.boxes # <<>> /\ c.info[ancestor].id = -1
    THEN [c EXCEPT !.info[ancestor].flows = Append(@, [flow EXCEPT !.boxesInfo = matched.boxes]),
                   !.info[ancestor].id = c.ids, !.ids = c.ids + 1]
    ELSE [c EXCEPT !.info[ancestor].flows = Append(@, [flow EXCEPT !.boxesInfo = matched.boxes])]

\* cacheFlowWithBoxesInfo leaving the whole pass when the ancestor has no INFO.
cacheFlowWithBoxesInfoOrLeave(c, terms, textFlow) ==
    LET flow == [text |-> joinText(textFlow),
                 nodeStart |-> textFlow[1],
                 nodeEnd |-> textFlow[Len(textFlow)],
                 boxesInfo |-> <<>>]
        ancestor == getAncestorCommon(parentElement(flow.nodeStart), flow.nodeEnd)
    IN  IF ~c.info[ancestor].has THEN [c EXCEPT !.threw = TRUE]
        ELSE cacheFlowMatched(c, ancestor, flow, boxesOfTerms(terms, textFlow))

cacheFlowWithBoxesInfo(c, terms, textFlow) ==
    LET flow == [text |-> joinText(textFlow),
                 nodeStart |-> textFlow[1],
                 nodeEnd |-> textFlow[Len(textFlow)],
                 boxesInfo |-> <<>>]
        ancestor == getAncestorCommon(parentElement(flow.nodeStart), flow.nodeEnd)
    IN  IF ~c.info[ancestor].has THEN c
        ELSE cacheFlowMatched(c, ancestor, flow, boxesOfTerms(terms, textFlow))

\* textFlows.slice(...).forEach(textFlow => this.cacheFlowWithBoxesInfo(terms, textFlow))
RECURSIVE cacheFlows(_, _, _)
cacheFlows(c, terms, textFlows) ==
    IF textFlows = <<>> \/ c.threw THEN c
    ELSE cacheFlows(cacheFlowWithBoxesInfo(c, terms, Head(textFlows)), terms, Tail(textFlows))

\* The slice taken by the owner's tag alone, whether or not the first and the
\* last flow are empty.
slicedTextFlowsByTag(flowOwner) ==
    LET breaksFlow == ~flowHas(flowOwner)
        textFlows == getTextFlows(childNodes(flowOwner), << <<>> >>)
    IN  SubSeq(textFlows, IF breaksFlow THEN 1 ELSE 2,
               IF breaksFlow THEN Len(textFlows) ELSE Len(textFlows) - 1)

\* textFlows.slice(...), inside calculateBoxesInfo: the flows of flowOwner that
\* are cached; the first and the last are dropped unless flowOwner breaks
\* flow and they are not empty.
slicedTextFlows(flowOwner) ==
    LET breaksFlow == ~flowHas(flowOwner)
        textFlows == getTextFlows(childNodes(flowOwner), << <<>> >>)
        from == IF breaksFlow /\ Len(textFlows[1]) > 0 THEN 1 ELSE 2
        to == IF breaksFlow /\ Len(textFlows[Len(textFlows)]) > 0
              THEN Len(textFlows) ELSE Len(textFlows) - 1
    IN  SubSeq(textFlows, from, to)

\* calculateBoxesInfo(terms, flowOwner)
calculateBoxesInfo(c, terms, flowOwner) ==
    IF childNodes(flowOwner) = <<>> THEN c
    ELSE cacheFlows(removeFlows(c, flowOwner), terms, slicedTextFlows(flowOwner))

\* breakFirst: while (breakFirst && flow.has(breakFirst.tagName))
\*     breakFirst = breakFirst !== parent ? walker.previousNode() : null
RECURSIVE seekBreakFirst(_, _)
seekBreakFirst(breakFirst, parent) ==
    IF breakFirst # 0 /\ flowHas(breakFirst)
    THEN seekBreakFirst(IF breakFirst # parent THEN previousNode(breakFirst) ELSE 0, parent)
    ELSE breakFirst

\* breakLast: while (breakLast && flow.has(breakLast.tagName))
\*     breakLast = parent.contains(breakLast) ? walker.nextNode() : null
RECURSIVE seekBreakLast(_, _)
seekBreakLast(breakLast, parent) ==
    IF breakLast # 0 /\ flowHas(breakLast)
    THEN seekBreakLast(IF contains(parent, breakLast) THEN nextNode(breakLast) ELSE 0, parent)
    ELSE breakLast

\* The breaks calculateBoxesInfoForFlowOwners finds around `node` under an
\* inline parent.
breakFirstOf(node) == seekBreakFirst(previousNode(node), parentElement(node))
breakLastOf(node) ==
    IF nextSibling(node) # 0
    THEN seekBreakLast(nextNode(nextSibling(node)), parentElement(node))
    ELSE 0

\* calculateBoxesInfoForFlowOwners stops at the inline parent of `node`.
stopsAtParent(node) ==
    /\ parentElement(node) # 0
    /\ flowHas(parentElement(node))
    /\ breakFirstOf(node) # 0
    /\ breakLastOf(node) # 0

\* The element calculateBoxesInfoForFlowOwners(terms, node) passes to
\* calculateBoxesInfo (0: none, the node has no parent).
RECURSIVE flowOwnerOf(_)
flowOwnerOf(node) ==
    LET parent == parentElement(node)
    IN  IF parent = 0 THEN 0
        ELSE IF flowHas(parent)
             THEN IF breakFirstOf(node) # 0 /\ breakLastOf(node) # 0
                  THEN parent
                  ELSE flowOwnerOf(parent)
             ELSE parent

\* calculateBoxesInfoForFlowOwners(terms, node)
calculateBoxesInfoForFlowOwners(c, terms, node) ==
    IF flowOwnerOf(node) = 0 THEN c
    ELSE calculateBoxesInfo(c, terms, flowOwnerOf(node))

\* The element calculateBoxesInfoForFlowOwnersFromContent(terms, element)
\* recomputes (0: none).
flowOwnerFromContent(element) ==
    IF flowHas(element) THEN flowOwnerOf(element) ELSE element

\* calculateBoxesInfoForFlowOwnersFromContent(terms, element)
calculateBoxesInfoForFlowOwnersFromContent(c, terms, element) ==
    IF flowHas(element)
    THEN calculateBoxesInfoForFlowOwners(c, terms, element)
    ELSE calculateBoxesInfo(c, terms, element)

\* flow.boxesInfo.filter(boxInfo => terms.every(term => token(term) !== token(boxInfo.term)))
filterBoxes(boxesInfo, terms) ==
    SelectSeq(boxesInfo, LAMBDA boxInfo : \A k \in 1..Len(terms) : terms[k] # boxInfo.term)

RECURSIVE filterBoxesInfo(_, _, _)
RECURSIVE filterBoxesInfoEach(_, _, _)
\* filterBoxesInfo(element), inside removeBoxesInfoForTerms
filterBoxesInfo(c, terms, element) ==
    IF ~c.info[element].has THEN c
    ELSE filterBoxesInfoEach(
             [c EXCEPT !.info[element].flows =
                 [k \in 1..Len(@) |-> [@[k] EXCEPT !.boxesInfo = filterBoxes(@, terms)]]],
             terms, children(element))
filterBoxesInfoEach(c, terms, elements) ==
    IF elements = <<>> THEN c
    ELSE filterBoxesInfoEach(filterBoxesInfo(c, terms, Head(elements)), terms, Tail(elements))

\* root.querySelectorAll("[markmysearch-h_id]") with root = document.body
elementsWithHighlightId(c) ==
    SelectSeq(NodeSeq, LAMBDA e : /\ e \in Elements /\ e # Body /\ InDocument(e)
                                  /\ c.info[e].id # -1)

\* removeBoxesInfoForTerms(terms)
removeBoxesInfoForTerms(c, terms) == filterBoxesInfoEach(c, terms, elementsWithHighlightId(c))

\* terms.current.filter(a => terms.every(b => JSON.stringify(a) !== JSON.stringify(b)))
termsToPurge(terms) ==
    SelectSeq(ptTerms, LAMBDA a : \A k \in 1..Len(terms) : a # terms[k])

(***************************************************************************)
(* The overlay (PAINT) engine: highlighting, and the mutation feed         *)
(***************************************************************************)

MaxRecords == 1      \* mutation records queued before the observer's callback runs

\* The hues highlighting is started with.
HueLists == {<<30>>}

\* The cache as a procedure finds it; `threw`: a TypeError has left the procedure.
Cache == [info |-> elementInfo, ids |-> highlightingIds, threw |-> FALSE]

\* The engine as constructed: nothing cached, no terms, observer not connected.
PtEngineNew(phase) ==
    /\ elementInfo = [e \in Elements |-> NoInfo]
    /\ highlightingIds = 0
    /\ ptTerms = <<>>
    /\ ptHues = <<>>
    /\ ptObserving = FALSE
    /\ records = <<>>
    /\ ptPhase = phase
    /\ processed = <<>>
    /\ ptRepeat = 0

\* Not part of the run: no overlay engine is constructed.
PtIdle ==
    /\ attached = PageNodes
    /\ text = [n \in TextNodes |-> <<"a", "b">>]
    /\ PtEngineNew("absent")

\* The engine is constructed on any of the documents.
PtInit ==
    /\ \E detached \in SUBSET Removable : attached = PageNodes \ detached
    /\ \E written \in [MutableTexts -> TextValues] :
           text = [n \in TextNodes |-> IF n \in MutableTexts THEN written[n] ELSE FixedText[n]]
    /\ PtEngineNew("new")

\* startHighlighting(terms, hues)
ptStartHighlighting(terms, hues) ==
    LET extended == extendCache(Cache, Body)
        purged == removeBoxesInfoForTerms(extended, termsToPurge(terms))
        calculated == calculateBoxesInfo(purged, terms, Body)
    IN  /\ elementInfo' = calculated.info
        /\ highlightingIds' = calculated.ids
        /\ ptTerms' = terms
        /\ ptHues' = hues
        \* a TypeError in calculateBoxesInfo leaves startHighlighting before observe()
        /\ ptObserving' = (calculated.threw => ptObserving)
        /\ ptPhase' = IF calculated.threw THEN "failed" ELSE "started"
        /\ processed' = <<>>
        /\ ptRepeat' = IF ptRepeat >= 1 /\ terms = ptTerms /\ hues = ptHues THEN 2 ELSE 1
        /\ UNCHANGED <<attached, text, records, ptOthers>>

PtStart == \E terms \in TermLists, hues \in HueLists : ptStartHighlighting(terms, hues)

\* endHighlighting()
PtEnd ==
    LET extended == extendCache(Cache, Body)
        removed == removeBoxesInfoForTerms(extended, <<>>)
    IN  /\ elementInfo' = removed.info
        /\ highlightingIds' = removed.ids
        /\ ptTerms' = <<>>
        /\ ptHues' = <<>>
        /\ ptPhase' = "ended"
        /\ processed' = <<>>
        /\ ptRepeat' = 0
        /\ UNCHANGED <<attached, text, ptObserving, records, ptOthers>>

\* A page script changes the document; the connected observer queues a
\* record, `limit` of them at most before its callback runs.
ObservedWithin(record, limit) ==
    /\ ptObserving => Len(records) < limit
    /\ records' = IF ptObserving THEN Append(records, record) ELSE records
    /\ processed' = <<>>
    /\ ptRepeat' = 0
    /\ UNCHANGED <<elementInfo, highlightingIds, ptTerms, ptHues, ptObserving, ptPhase, ptOthers>>

\* textNode.data = value
SetTextWithin(limit) ==
    \E n \in MutableTexts, value \in TextValues :
        /\ InDocument(n)
        /\ value # text[n]
        /\ text' = [text EXCEPT ![n] = value]
        /\ UNCHANGED attached
        /\ ObservedWithin([type |-> "characterData", target |-> n, added |-> 0, removed |-> 0],
                          limit)

\* parent.insertBefore(node, ...), for a node of `nodes`
InsertNodeOf(nodes, limit) ==
    \E n \in nodes \ attached :
        /\ InDocument(HomeParent[n])
        /\ attached' = attached \cup {n}
        /\ UNCHANGED text
        /\ ObservedWithin([type |-> "childList", target |-> HomeParent[n], added |-> n,
                           removed |-> 0], limit)

\* node.remove(), for a node of `nodes`
RemoveNodeOf(nodes, limit) ==
    \E n \in nodes \cap attached :
        /\ InDocument(n)
        /\ attached' = attached \ {n}
        /\ UNCHANGED text
        /\ ObservedWithin([type |-> "childList", target |-> HomeParent[n], added |-> 0,
                           removed |-> n], limit)

Observed(record) == ObservedWithin(record, MaxRecords)
SetText == SetTextWithin(MaxRecords)
InsertNode == InsertNodeOf(Removable, MaxRecords)
RemoveNode == RemoveNodeOf(Removable, MaxRecords)

\* elements.add(element): a Set keeps insertion order
setAdd(elements, element) ==
    IF \E k \in 1..Len(elements) : elements[k] = element THEN elements
    ELSE Append(elements, element)

\* The body of `for (const mutation of mutations)` for one record, on the
\* state s = [c, elements, threw]; `threw` when canHighlightElement is called
\* on the null parentElement of an added text node (a TypeError).
visitMutation(s, mutation) ==
    LET added == mutation.added
        target == mutation.target
        extended == IF added \in Elements /\ canHighlightElement(added)
                    THEN extendCache(s.c, added) ELSE s.c
        withTarget == IF /\ mutation.type = "characterData"
                         /\ parentElement(target) # 0
                         /\ canHighlightElement(parentElement(target))
                      THEN setAdd(s.elements, parentElement(target)) ELSE s.elements
        withAdded == IF added \in Elements
                     THEN IF canHighlightElement(added) THEN setAdd(withTarget, added)
                          ELSE withTarget
                     ELSE IF added \in TextNodes /\ canHighlightElement(parentElement(added))
                          THEN setAdd(withTarget, parentElement(added))
                          ELSE withTarget
    IN  IF s.threw THEN s
        ELSE [c |-> extended, elements |-> withAdded,
              threw |-> added \in TextNodes /\ parentElement(added) = 0]

RECURSIVE visitMutations(_, _)
visitMutations(s, mutations) ==
    IF mutations = <<>> THEN s
    ELSE visitMutations(visitMutation(s, Head(mutations)), Tail(mutations))

\* for (const element of elements) calculateBoxesInfoForFlowOwnersFromContent(terms.current, element)
RECURSIVE calculateEach(_, _, _)
calculateEach(c, terms, elements) ==
    IF elements = <<>> \/ c.threw THEN c
    ELSE calculateEach(calculateBoxesInfoForFlowOwnersFromContent(c, terms, Head(elements)),
                       terms, Tail(elements))

\* What the observer's callback collects from the queued records.
Visited == visitMutations([c |-> Cache, elements |-> <<>>, threw |-> FALSE], records)

\* The MutationObserver callback of getMutationUpdates runs on the queued records.
PtMutationsObserved ==
    LET calculated == IF Visited.threw THEN Visited.c
                      ELSE calculateEach(Visited.c, ptTerms, Visited.elements)
    IN  /\ records # <<>>
        /\ elementInfo' = calculated.info
        /\ highlightingIds' = calculated.ids
        /\ records' = <<>>
        /\ processed' = records
        /\ ptRepeat' = 0
        /\ UNCHANGED <<attached, text, ptTerms, ptHues, ptObserving, ptPhase, ptOthers>>

PtNext == PtStart \/ PtEnd \/ SetText \/ InsertNode \/ RemoveNode \/ PtMutationsObserved

(***************************************************************************)
(* The overlay (PAINT) engine's TermCounter                                *)
(***************************************************************************)

\* The elements the TreeWalker of countFaster/exists visits: those under body
\* that have INFO, in subtrees not cut off by an element without INFO.
RECURSIVE walkerAccepts(_)
walkerAccepts(element) ==
    IF element = Body THEN TRUE
    ELSE /\ parentElement(element) # 0
         /\ elementInfo[element].has
         /\ walkerAccepts(parentElement(element))

\* flow.boxesInfo.filter(boxInfo => boxInfo.term === term).length, summed over flows
RECURSIVE countInFlows(_, _)
countInFlows(flows, term) ==
    IF flows = <<>> THEN 0
    ELSE Len(SelectSeq(Head(flows).boxesInfo, LAMBDA boxInfo : boxInfo.term = term))
         + countInFlows(Tail(flows), term)

RECURSIVE countInElements(_, _)
countInElements(elements, term) ==
    IF elements = <<>> THEN 0
    ELSE countInFlows(elementInfo[Head(elements)].flows, term)
         + countInElements(Tail(elements), term)

\* countFaster(term)
countFaster(term) ==
    countInElements(SelectSeq(NodeSeq, LAMBDA e : e \in Elements /\ e # Body /\ walkerAccepts(e)),
                    term)

\* exists(term)
exists(term) ==
    \E e \in Elements :
        /\ e # Body /\ walkerAccepts(e)
        /\ \E k \in 1..Len(elementInfo[e].flows) :
               \E j \in 1..Len(elementInfo[e].flows[k].boxesInfo) :
                   elementInfo[e].flows[k].boxesInfo[j].term = term

(***************************************************************************)
(* Properties of the overlay (PAINT) engine                                *)
(***************************************************************************)

\* The terms of all term lists.
AllTerms == UNION {{terms[k] : k \in 1..Len(terms)} : terms \in TermLists}

\* A step in which the observer's callback processes the queued records.
CallbackRuns == records # <<>> /\ records' = <<>>

\* C5: after endHighlighting and until the next startHighlighting the
\* mutation observer is disconnected and holds no record, and no run of its
\* callback changes the cache.
C5_EndStopsMutationFeed ==
    /\ [](ptPhase = "ended" => (~ptObserving /\ records = <<>>))
    /\ [][(ptPhase = "ended" /\ CallbackRuns) => elementInfo' = elementInfo]_vars

\* C6: after endHighlighting and until the next startHighlighting no element's
\* cache holds a span, countFaster is 0 and exists is false for every term.
C6_EndRemovesAllSpans ==
    ptPhase = "ended" =>
        /\ \A e \in Elements : \A k \in 1..Len(elementInfo[e].flows) :
               elementInfo[e].flows[k].boxesInfo = <<>>
        /\ \A term \in AllTerms : countFaster(term) = 0 /\ ~exists(term)

\* node.closest(block): the nearest ancestor of an element, itself included,
\* whose tag is not a flow tag (0: none).
RECURSIVE blockOf(_)
blockOf(element) ==
    IF element = 0 THEN 0
    ELSE IF flowHas(element) THEN blockOf(parentElement(element))
    ELSE element

\* The element a mutation happened directly under.
mutatedUnder(mutation) ==
    IF mutation.type = "characterData" THEN parentElement(mutation.target)
    ELSE mutation.target

\* The elements of the document under the blocks the processed mutations happened in.
AffectedElements ==
    {e \in Elements : /\ InDocument(e)
                      /\ \E k \in 1..Len(processed) : contains(blockOf(mutatedUnder(processed[k])), e)}

\* The cache a full recompute from the document root leaves:
\* extendCache(body) and calculateBoxesInfo(terms, body), as startHighlighting runs them.
FullRecompute == calculateBoxesInfo(extendCache(Cache, Body), ptTerms, Body).info

\* The same flows, whatever their order.
SameFlows(flowsA, flowsB) ==
    /\ Len(flowsA) = Len(flowsB)
    /\ \A flow \in {flowsA[k] : k \in 1..Len(flowsA)} \cup {flowsB[k] : k \in 1..Len(flowsB)} :
           Cardinality({k \in 1..Len(flowsA) : flowsA[k] = flow})
               = Cardinality({k \in 1..Len(flowsB) : flowsB[k] = flow})

\* C7: once the observer's callback has processed the queued mutations, the
\* flows (with their spans) cached under the affected blocks are those a full
\* recompute from the document root produces on the mutated document.
C7_IncrementalEqualsFull ==
    (ptPhase = "started" /\ processed # <<>>) =>
        \A e \in AffectedElements : SameFlows(elementInfo[e].flows, FullRecompute[e].flows)

\* An element that breaks flows: its tag is neither a flow tag nor rejected.
breaksFlows(element) == ~flowHas(element) /\ ~rejectHas(element)

\* A block boundary lies inside the parent of `node`, before the node / after it.
BlockInsideBefore(node) ==
    \E x \in Elements : /\ breaksFlows(x) /\ x < node
                        /\ x # parentElement(node) /\ contains(parentElement(node), x)
BlockInsideAfter(node) ==
    \E x \in Elements : /\ breaksFlows(x) /\ x > node /\ ~contains(node, x)
                        /\ x # parentElement(node) /\ contains(parentElement(node), x)

\* C8: for every inline element the callback is about to hand to
\* calculateBoxesInfoForFlowOwners: if the climb stops at its inline parent, a
\* block boundary lies inside that parent both before and after the element;
\* otherwise the element recomputed is a non-flow ancestor.
C8_ClimbStopsOnlyWhenSelfContained ==
    \A k \in 1..Len(Visited.elements) :
        LET node == Visited.elements[k]
        IN  (flowHas(node) /\ parentElement(node) # 0) =>
                IF stopsAtParent(node)
                THEN BlockInsideBefore(node) /\ BlockInsideAfter(node)
                ELSE flowOwnerOf(node) # 0 /\ ~flowHas(flowOwnerOf(node))

\* The elements the callback recomputes from (the roots E of its partial recomputes).
RecomputeRoots ==
    IF Visited.threw THEN {}
    ELSE {flowOwnerFromContent(Visited.elements[k]) : k \in 1..Len(Visited.elements)} \ {0}

\* What calculateBoxesInfo(terms, E) is to leave: the flows under E cleared,
\* then the flows found under E cached.
Rebuilt(c, E) == cacheFlows(removeFlows(c, E), ptTerms, slicedTextFlows(E)).info

\* C9: a run of the callback on one mutation clears and rebuilds the flows of
\* the element E it recomputes from and of E's descendants, changes the flows
\* of no element outside E's subtree, and, when the mutation happened directly
\* under a block element, E is that block element.
C9_PartialRecomputeFrame ==
    [][(CallbackRuns /\ Len(records) = 1) =>
           /\ \A E \in RecomputeRoots : \A e \in Elements :
                  contains(E, e) => elementInfo'[e].flows = Rebuilt(Visited.c, E)[e].flows
           /\ \A e \in Elements :
                  (\A E \in RecomputeRoots : ~contains(E, e)) =>
                      elementInfo'[e].flows = elementInfo[e].flows
           /\ (mutatedUnder(records[1]) # 0 /\ ~flowHas(mutatedUnder(records[1]))) =>
                  RecomputeRoots = {mutatedUnder(records[1])}]_vars

(***************************************************************************)
(* The DOM-splitting (ELEMENT) engine                                      *)
(*                                                                         *)
(* The engine edits the document, so the document is a store of nodes: the *)
(* node with id n is elDom[n], body is node 1, and a node created by the   *)
(* engine gets the next free id.  The engine's procedures are operators    *)
(* from the store d to the store they leave.  The texts hold no markup     *)
(* character, so a text serializes to itself.                              *)
(***************************************************************************)

MaxElementStarts == 3    \* startHighlighting calls in one run

\* highlightTags.flow and highlightTags.reject
highlightTagsFlow == {"b", "i", "u", "strong", "em", "cite", "span", "mark", "wbr", "code",
                      "data", "dfn", "ins", "mms-h"}
highlightTagsReject == {"meta", "style", "script", "noscript", "title", "textarea"}

\* document.createTextNode(data) and document.createElement(tag), not yet inserted
createTextNode(data) ==
    [tag |-> "#text", data |-> data, term |-> <<>>, parent |-> 0, kids |-> <<>>, known |-> FALSE]
createElement(tag) ==
    [tag |-> tag, data |-> <<>>, term |-> <<>>, parent |-> 0, kids |-> <<>>, known |-> FALSE]

\* The documents the engine is constructed on:
\*   body(1) > p(2) > [ #text(3), span(4) > [ #text(5) ], #text(6) ]
ElTextValues == {<<"a">>, <<"b">>, <<"b", "a">>}
ElDocument(x, y, z) ==
    << [createElement("body") EXCEPT !.kids = <<2>>],
       [createElement("p") EXCEPT !.parent = 1, !.kids = <<3, 4, 6>>],
       [createTextNode(x) EXCEPT !.parent = 2],
       [createElement("span") EXCEPT !.parent = 2, !.kids = <<5>>],
       [createTextNode(y) EXCEPT !.parent = 4],
       [createTextNode(z) EXCEPT !.parent = 2] >>

\* The index of x in the sequence s.
IndexIn(s, x) == CHOOSE k \in 1..Len(s) : s[k] = x

\* string.substring(start, end), on 0-based indexes
substring(string, start, end) ==
    LET from == Max(0, Min(start, Len(string)))
        to == Max(0, Min(end, Len(string)))
    IN  SubSeq(string, Min(from, to) + 1, Max(from, to))

\* node.firstChild and node.nextSibling (0 for null)
elFirstChild(d, node) == IF d[node].kids = <<>> THEN 0 ELSE d[node].kids[1]
elNextSibling(d, node) ==
    LET siblings == d[d[node].parent].kids
    IN  IF d[node].parent = 0 \/ IndexIn(siblings, node) = Len(siblings) THEN 0
        ELSE siblings[IndexIn(siblings, node) + 1]

\* parent.insertBefore(node, reference)
insertBefore(d, parent, node, reference) ==
    LET k == IndexIn(d[parent].kids, reference)
    IN  [d EXCEPT ![parent].kids = SubSeq(@, 1, k - 1) \o <<node>> \o SubSeq(@, k, Len(@)),
                  ![node].parent = parent]

\* The nodes under `node`, itself included, in document order.
RECURSIVE elSubtree(_, _)
RECURSIVE elSubtrees(_, _)
elSubtree(d, node) == <<node>> \o elSubtrees(d, d[node].kids)
elSubtrees(d, nodes) ==
    IF nodes = <<>> THEN <<>> ELSE elSubtree(d, Head(nodes)) \o elSubtrees(d, Tail(nodes))

\* The data of the text nodes of a sequence of nodes, concatenated.
RECURSIVE elJoin(_, _)
elJoin(d, nodes) ==
    IF nodes = <<>> THEN <<>> ELSE d[Head(nodes)].data \o elJoin(d, Tail(nodes))

\* node.textContent
elTextContent(d, node) == elJoin(d, elSubtree(d, node))

\* UnbrokenNodeList: the items in order, an item being the text node it holds
\* (0 for null).  (itemBefore ? itemBefore.next : this.first), and item.next.
listAfter(list, itemBefore) ==
    IF itemBefore = 0 THEN (IF list = <<>> THEN 0 ELSE list[1])
    ELSE IF IndexIn(list, itemBefore) = Len(list) THEN 0
    ELSE list[IndexIn(list, itemBefore) + 1]

\* nodeItems.insertAfter(itemBefore, value)
insertAfter(list, itemBefore, value) ==
    IF value = 0 THEN list
    ELSE IF itemBefore = 0 THEN <<value>> \o list
    ELSE SubSeq(list, 1, IndexIn(list, itemBefore)) \o <<value>>
         \o SubSeq(list, IndexIn(list, itemBefore) + 1, Len(list))

\* highlightInsideNode without parentNode["markmysearchKnown"] = true
highlightInsideNodeUnknown(s, term, textEndNode, start, end, nodeItemPrevious) ==
    LET nodeText == s.d[textEndNode].data
        textStart == substring(nodeText, 0, start)
        highlightText == substring(nodeText, start, end)
        parent == s.d[textEndNode].parent
        highlight == Len(s.d) + 1
        highlightChild == IF highlightText = <<>> THEN 0 ELSE Len(s.d) + 2
        created == Append(s.d, [createElement("mms-h") EXCEPT
                        !.term = term,
                        !.kids = IF highlightChild = 0 THEN <<>> ELSE <<highlightChild>>])
        filled == IF highlightChild = 0 THEN created
                  ELSE Append(created, [createTextNode(highlightText) EXCEPT !.parent = highlight])
        truncated == [filled EXCEPT ![textEndNode].data = substring(nodeText, end, Len(nodeText))]
        inserted == insertBefore(truncated, parent, highlight, textEndNode)
        listed == insertAfter(s.list, nodeItemPrevious, highlightChild)
        textStartNode == Len(inserted) + 1
        withStart == insertBefore(Append(inserted, createTextNode(textStart)),
                                  parent, textStartNode, highlight)
        listedStart == insertAfter(listed, nodeItemPrevious, textStartNode)
    IN  IF textStart # <<>>
        THEN [d |-> withStart, list |-> listedStart,
              item |-> listAfter(listedStart, listAfter(listedStart, nodeItemPrevious))]
        ELSE [d |-> inserted, list |-> listed, item |-> listAfter(listed, nodeItemPrevious)]

\* highlightInsideNode(term, textEndNode, start, end, nodeItems, nodeItemPrevious)
\* on s = [d, list]; gives the store, the list and the item returned.
highlightInsideNode(s, term, textEndNode, start, end, nodeItemPrevious) ==
    LET nodeText == s.d[textEndNode].data
        textStart == substring(nodeText, 0, start)
        highlightText == substring(nodeText, start, end)
        parent == s.d[textEndNode].parent
        highlight == Len(s.d) + 1
        highlightChild == IF highlightText = <<>> THEN 0 ELSE Len(s.d) + 2
        created == Append(s.d, [createElement("mms-h") EXCEPT
                        !.term = term,
                        !.kids = IF highlightChild = 0 THEN <<>> ELSE <<highlightChild>>])
        filled == IF highlightChild = 0 THEN created
                  ELSE Append(created, [createTextNode(highlightText) EXCEPT !.parent = highlight])
        truncated == [filled EXCEPT ![textEndNode].data = substring(nodeText, end, Len(nodeText))]
        inserted == [insertBefore(truncated, parent, highlight, textEndNode)
                        EXCEPT ![parent].known = TRUE]
        listed == insertAfter(s.list, nodeItemPrevious, highlightChild)
        textStartNode == Len(inserted) + 1
        withStart == insertBefore(Append(inserted, createTextNode(textStart)),
                                  parent, textStartNode, highlight)
        listedStart == insertAfter(listed, nodeItemPrevious, textStartNode)
    IN  IF textStart # <<>>
        THEN [d |-> withStart, list |-> listedStart,
              item |-> listAfter(listedStart, listAfter(listedStart, nodeItemPrevious))]
        ELSE [d |-> inserted, list |-> listed, item |-> listAfter(listed, nodeItemPrevious)]

\* nodeItemPrevious = nodeItem; nodeItem = nodeItem.next; textStart = textEnd;
\* textEnd += nodeItem.value.length -- on the position [prev, item, textStart, textEnd]
elAdvance(s, pos) ==
    LET item == listAfter(s.list, pos.item)
    IN  [prev |-> pos.item, item |-> item, textStart |-> pos.textEnd,
         textEnd |-> pos.textEnd + Len(s.d[item].data)]

\* while (textEnd <= highlightStart) { ... }
RECURSIVE elSeek(_, _, _)
elSeek(s, pos, highlightStart) ==
    IF pos.textEnd <= highlightStart THEN elSeek(s, elAdvance(s, pos), highlightStart)
    ELSE pos

\* while (true) { nodeItemPrevious = this.highlightInsideNode(...); ... }
\* Gives the state and the position the loop ends with.  elHighlightRest is
\* the loop body after the call, on the call's result.
RECURSIVE elHighlightMatch(_, _, _, _, _)
elHighlightRest(inside, term, pos, highlightEnd) ==
    IF highlightEnd <= pos.textEnd
    THEN [s |-> [d |-> inside.d, list |-> inside.list],
          \* textStart = highlightEnd
          pos |-> [pos EXCEPT !.prev = inside.item, !.textStart = highlightEnd]]
    ELSE \* highlightStart = textEnd; textStart = highlightEnd
         elHighlightMatch([d |-> inside.d, list |-> inside.list], term,
                          elAdvance([d |-> inside.d, list |-> inside.list],
                                    [pos EXCEPT !.prev = inside.item, !.textStart = highlightEnd]),
                          pos.textEnd, highlightEnd)

elHighlightMatch(s, term, pos, highlightStart, highlightEnd) ==
    elHighlightRest(
        highlightInsideNode(s, term, pos.item, highlightStart - pos.textStart,
                            Min(highlightEnd - pos.textStart, pos.textEnd), pos.prev),
        term, pos, highlightEnd)

\* for (const match of matches) { ... }
RECURSIVE elHighlightMatches(_, _, _, _)
elHighlightNext(done, term, matches) == elHighlightMatches(done.s, term, matches, done.pos)

elHighlightMatches(s, term, matches, pos) ==
    IF matches = <<>> THEN s
    ELSE elHighlightNext(
             elHighlightMatch(s, term, elSeek(s, pos, Head(matches).index),
                              Head(matches).index, Head(matches).index + Head(matches).length),
             term, Tail(matches))

\* for (const term of terms) { ... }
RECURSIVE elHighlightTerms(_, _, _)
elHighlightTerms(s, terms, textFlow) ==
    IF terms = <<>> THEN s
    ELSE elHighlightTerms(
             elHighlightMatches(s, Head(terms), matchAll(textFlow, Head(terms), 0),
                                [prev |-> 0, item |-> s.list[1], textStart |-> 0,
                                 textEnd |-> Len(s.d[s.list[1]].data)]),
             Tail(terms), textFlow)

\* highlightInBlock that highlights the first term only
highlightInBlockFirstTerm(d, terms, nodeItems) ==
    elHighlightTerms([d |-> d, list |-> nodeItems], SubSeq(terms, 1, 1),
                     elJoin(d, nodeItems)).d

\* highlightInBlock(terms, nodeItems); textFlow is nodeItems.getText()
highlightInBlock(d, terms, nodeItems) ==
    elHighlightTerms([d |-> d, list |-> nodeItems], terms, elJoin(d, nodeItems)).d

\* if (breaksFlow && nodeItems.first) { highlightInBlock(terms, nodeItems); nodeItems.clear(); }
elFlushFlow(s, terms, breaksFlow) ==
    IF breaksFlow /\ s.list # <<>>
    THEN [d |-> highlightInBlock(s.d, terms, s.list), list |-> <<>>,
          flows |-> Append(s.flows, s.list)]
    ELSE s

\* insertHighlights(terms, node, nodeItems, visitSiblings) on s = [d, list,
\* flows]: the document, nodeItems, and the lists highlightInBlock was given.
RECURSIVE insertHighlights(_, _, _, _)
\* if (node.firstChild) { insertHighlights(terms, node.firstChild, nodeItems); ... }
elVisitChildren(s, terms, node, breaksFlow) ==
    IF elFirstChild(s.d, node) = 0 THEN s
    ELSE elFlushFlow(insertHighlights(s, terms, elFirstChild(s.d, node), TRUE),
                     terms, breaksFlow)

\* switch (node.nodeType) { ... }
elVisitNode(s, terms, node) ==
    IF s.d[node].tag = "#text" THEN [s EXCEPT !.list = Append(@, node)]
    ELSE IF s.d[node].tag \in highlightTagsReject THEN s
    ELSE elVisitChildren(elFlushFlow(s, terms, s.d[node].tag \notin highlightTagsFlow),
                         terms, node, s.d[node].tag \notin highlightTagsFlow)

\* node = node.nextSibling; } while (node && visitSiblings)
elVisitSibling(s, terms, node, visitSiblings) ==
    IF elNextSibling(s.d, node) # 0 /\ visitSiblings
    THEN insertHighlights(s, terms, elNextSibling(s.d, node), TRUE)
    ELSE s

insertHighlights(s, terms, node, visitSiblings) ==
    elVisitSibling(elVisitNode(s, terms, node), terms, node, visitSiblings)

\* generateHighlightsUnderNode(terms, rootNode)
elHighlightLast(s, terms) ==
    IF s.list # <<>> THEN highlightInBlock(s.d, terms, s.list) ELSE s.d

generateHighlightsUnderNode(d, terms, rootNode) ==
    IF d[rootNode].tag = "#text" THEN highlightInBlock(d, terms, <<rootNode>>)
    ELSE elHighlightLast(insertHighlights([d |-> d, list |-> <<>>, flows |-> <<>>],
                                          terms, rootNode, FALSE),
                         terms)

\* The lists of text nodes that generateHighlightsUnderNode(terms, rootNode)
\* passes to highlightInBlock, in the order of the calls.
elFlowsWithLast(s) == IF s.list # <<>> THEN Append(s.flows, s.list) ELSE s.flows

highlightedInBlocks(d, terms, rootNode) ==
    IF d[rootNode].tag = "#text" THEN << <<rootNode>> >>
    ELSE elFlowsWithLast(insertHighlights([d |-> d, list |-> <<>>, flows |-> <<>>],
                                          terms, rootNode, FALSE))

\* The nodes that the serialization of a sequence of sibling nodes parses to,
\* created in the store under `parent`, on s = [d, kids, text]: the store, the
\* nodes created so far and the text not yet closed by an element.  Adjacent
\* text nodes serialize to one string, which parses to one text node, or to
\* no node when it is empty; an element parses to a new element of the same
\* tag and class, without the properties scripts had set on the old one.
RECURSIVE parseInto(_, _, _)
parseFlush(s, parent) ==
    IF s.text = <<>> THEN s
    ELSE [d |-> Append(s.d, [createTextNode(s.text) EXCEPT !.parent = parent]),
          kids |-> Append(s.kids, Len(s.d) + 1), text |-> <<>>]

parseClose(s, inner, element, siblings, parent) ==
    parseInto([d |-> [inner.d EXCEPT ![element].kids = inner.kids],
               kids |-> Append(s.kids, element), text |-> <<>>],
              siblings, parent)

parseElement(s, node, element, siblings, parent) ==
    parseClose(s,
               parseInto([d |-> Append(s.d, [createElement(s.d[node].tag) EXCEPT
                                                !.term = s.d[node].term, !.parent = parent]),
                          kids |-> <<>>, text |-> <<>>],
                         s.d[node].kids, element),
               element, siblings, parent)

parseInto(s, nodes, parent) ==
    IF nodes = <<>> THEN parseFlush(s, parent)
    ELSE IF s.d[Head(nodes)].tag = "#text"
    THEN parseInto([s EXCEPT !.text = @ \o s.d[Head(nodes)].data], Tail(nodes), parent)
    ELSE parseElement(parseFlush(s, parent), Head(nodes), Len(parseFlush(s, parent).d) + 1,
                      Tail(nodes), parent)

\* highlight.outerHTML = highlight.innerHTML
replaceWith(parsed, parent, k) ==
    [parsed.d EXCEPT ![parent].kids = SubSeq(@, 1, k - 1) \o parsed.kids \o SubSeq(@, k + 1, Len(@))]

restoreHighlight(d, highlight) ==
    replaceWith(parseInto([d |-> d, kids |-> <<>>, text |-> <<>>],
                          d[highlight].kids, d[highlight].parent),
                d[highlight].parent,
                IndexIn(d[d[highlight].parent].kids, highlight))

RECURSIVE restoreHighlights(_, _)
restoreHighlights(d, highlights) ==
    IF highlights = <<>> THEN d
    ELSE restoreHighlights(restoreHighlight(d, Head(highlights)), Tail(highlights))

\* The reverse of a sequence.
Reverse(s) == [k \in 1..Len(s) |-> s[Len(s) + 1 - k]]

\* elementsRestore(classNames, root): the markers under root of the classes
\* given (the class of a marker is its term), or all of them when none is
\* given, last first
elementsRestoreClasses(d, classNames, root) ==
    restoreHighlights(d, Reverse(SelectSeq(Tail(elSubtree(d, root)),
        LAMBDA n : /\ d[n].tag = "mms-h"
                   /\ (classNames = <<>> \/ \E k \in 1..Len(classNames) : d[n].term = classNames[k]))))

\* elementsRestore([], root)
elementsRestore(d, root) == elementsRestoreClasses(d, <<>>, root)

\* The store with the nodes of the document only, numbered in document order:
\* a node's identity is its place in the document.
Canonical(d) ==
    LET order == elSubtree(d, 1)
    IN  [i \in 1..Len(order) |->
            [d[order[i]] EXCEPT
                !.parent = IF @ = 0 THEN 0 ELSE IndexIn(order, @),
                !.kids = [k \in 1..Len(d[order[i]].kids) |-> IndexIn(order, d[order[i]].kids[k])]]]

\* No DOM-splitting engine is constructed.
ElIdle ==
    /\ elDom = <<createElement("body")>>
    /\ elTerms = <<>>
    /\ elHues = <<>>
    /\ elObserving = FALSE
    /\ elPhase = "absent"
    /\ elStarts = 0
    /\ elRepeat = 0

\* The engine is constructed on any of the documents.
ElInit ==
    /\ \E x, y, z \in ElTextValues : elDom = ElDocument(x, y, z)
    /\ elTerms = <<>>
    /\ elHues = <<>>
    /\ elObserving = FALSE
    /\ elPhase = "new"
    /\ elStarts = 0
    /\ elRepeat = 0

\* startHighlighting(terms, hues)
elStartHighlighting(terms, hues) ==
    /\ elStarts < MaxElementStarts
    /\ elObserving' = TRUE
    /\ elDom' = Canonical(generateHighlightsUnderNode(elementsRestore(elDom, 1), terms, 1))
    /\ elTerms' = terms
    /\ elHues' = hues
    /\ elPhase' = "started"
    /\ elStarts' = elStarts + 1
    /\ elRepeat' = IF elRepeat >= 1 /\ terms = elTerms /\ hues = elHues THEN 2 ELSE 1
    /\ UNCHANGED elOthers

ElStart == \E terms \in TermLists, hues \in HueLists : elStartHighlighting(terms, hues)

\* endHighlighting()
ElEnd ==
    /\ elObserving' = FALSE
    /\ elDom' = Canonical(elementsRestore(elDom, 1))
    /\ elTerms' = <<>>
    /\ elHues' = <<>>
    /\ elPhase' = "ended"
    /\ elRepeat' = 0
    /\ UNCHANGED <<elStarts, elOthers>>

ElNext == ElStart \/ ElEnd

(***************************************************************************)
(* Restarting either engine                                                *)
(***************************************************************************)

\* The marker elements of a document: the term each marks, the text it holds
\* and the place in the document's text where it stands.
Markers(d) ==
    LET order == elSubtree(d, 1)
    IN  {[term |-> d[order[k]].term,
          text |-> elTextContent(d, order[k]),
          start |-> Len(elJoin(d, SubSeq(order, 1, k - 1)))] :
            k \in {j \in 1..Len(order) : d[order[j]].tag = "mms-h"}}

\* No value occurs twice in a sequence.
NoDuplicates(s) == \A i, j \in 1..Len(s) : s[i] = s[j] => i = j

\* C10: startHighlighting called again with the same terms and hues on an
\* unchanged document leaves the state the first call left: every element's
\* flows and spans are the same and none is cached twice, no highlight id
\* changes, and the DOM-splitting engine leaves the same set of marker
\* elements.
C10_RestartIsIdempotent ==
    /\ [][(ptRepeat >= 1 /\ ptRepeat' = 2) =>
            (elementInfo' = elementInfo /\ highlightingIds' = highlightingIds)]_vars
    /\ [](ptRepeat = 2 =>
            \A e \in Elements :
                /\ NoDuplicates(elementInfo[e].flows)
                /\ \A k \in 1..Len(elementInfo[e].flows) :
                       NoDuplicates(elementInfo[e].flows[k].boxesInfo))
    /\ [][(elRepeat >= 1 /\ elRepeat' = 2) => Markers(elDom') = Markers(elDom)]_vars

(***************************************************************************)
(* The matcher applied to one flow                                         *)
(***************************************************************************)

\* Neither the segmenter nor the matcher has been applied on its own.
FnIdle ==
    /\ fnRoot = 0
    /\ fnFlows = <<>>
    /\ fnPassed = <<>>
    /\ fnTerms = <<>>
    /\ fnFlow = <<>>
    /\ fnSpans = <<>>

\* matchInTextFlow(terms, termPatterns, text, textFlow): for each term reached,
\* the matches with the spans pushed for each; a TypeError ends it.
RECURSIVE matchInTextFlow(_, _, _)
matchInTextFlowNext(spans, terms, flowText, textFlow) ==
    <<spans>> \o (IF spansThrew(spans) THEN <<>> ELSE matchInTextFlow(terms, flowText, textFlow))

matchInTextFlow(terms, flowText, textFlow) ==
    IF terms = <<>> THEN <<>>
    ELSE matchInTextFlowNext(spansOfTerm(Head(terms), flowText, textFlow),
                             Tail(terms), flowText, textFlow)

\* The term the regex-mode phrase `b*` makes: it matches the empty string too.
RegexTerm == <<"b", "*">>

\* The terms the matcher is applied to.
MatchTermLists ==
    TermLists \cup {<<RegexTerm>>, <<RegexTerm, <<"a", "b">>>>, <<<<"a", "b">>, RegexTerm>>}

\* The documents the matcher is applied on: the childless block elements
\* FlowBreaks may be missing, and the text nodes MatchTexts hold any of
\* MatchTextValues; a text node may be empty.
FlowBreaks == {5, 9}
MatchTexts == {3, 7, 8}
MatchTextValues == {<<>>, <<"a">>, <<"b">>, <<"a", "b">>}

MtInit ==
    /\ \E missing \in SUBSET FlowBreaks : attached = PageNodes \ missing
    /\ \E held \in [MatchTexts -> MatchTextValues] :
           text = [n \in TextNodes |-> IF n \in MatchTexts THEN held[n] ELSE FixedText[n]]
    /\ PtEngineNew("new")
    /\ FnIdle

\* matchInTextFlow is applied to a flow of the document.
MatchInTextFlow ==
    /\ fnTerms = <<>>
    /\ \E terms \in MatchTermLists, k \in 1..Len(slicedTextFlows(Body)) :
           /\ fnTerms' = terms
           /\ fnFlow' = slicedTextFlows(Body)[k]
           /\ fnSpans' = matchInTextFlow(terms, joinText(slicedTextFlows(Body)[k]),
                                         slicedTextFlows(Body)[k])
    /\ UNCHANGED <<fnRoot, fnFlows, fnPassed, ptVars, fnOthers>>

\* startHighlighting(terms, hues) on the engine as constructed.
MtStart ==
    /\ ptPhase = "new"
    /\ \E terms \in MatchTermLists, hues \in HueLists : ptStartHighlighting(terms, hues)
    /\ UNCHANGED fnVars

MtNext == MatchInTextFlow \/ MtStart

\* The characters of `string` from index `from` up to, not including, `to`.
slice(string, from, to) == SubSeq(string, from + 1, to)

\* node.text[start:end] of the boxes, concatenated.
RECURSIVE boxesText(_)
boxesText(boxes) ==
    IF boxes = <<>> THEN <<>>
    ELSE slice(text[Head(boxes).node], Head(boxes).start, Head(boxes).end)
         \o boxesText(Tail(boxes))

\* The matches matchInTextFlow went through.
MatchesSeen == UNION {{fnSpans[t][m] : m \in 1..Len(fnSpans[t])} : t \in 1..Len(fnSpans)}

\* C11: for every flow of text nodes (empty ones included) and every
\* non-empty match [s, e) of a term in the flow's text, the spans emitted for
\* the match lie on consecutive nodes of the flow in order, each has
\* 0 <= start <= end <= node length, and the node texts between start and end,
\* concatenated, are text[s:e].
C11_SpansRoundTrip ==
    \A match \in MatchesSeen :
        match.end > match.start =>
            /\ ~match.threw
            /\ match.boxes # <<>>
            /\ \E first \in 1..Len(fnFlow) :
                   \A k \in 1..Len(match.boxes) :
                       /\ first + k - 1 <= Len(fnFlow)
                       /\ match.boxes[k].node = fnFlow[first + k - 1]
            /\ \A k \in 1..Len(match.boxes) :
                   /\ 0 <= match.boxes[k].start
                   /\ match.boxes[k].start <= match.boxes[k].end
                   /\ match.boxes[k].end <= Len(text[match.boxes[k].node])
            /\ boxesText(match.boxes) = slice(joinText(fnFlow), match.start, match.end)

\* A match that runs over an empty text node into the node after it.
C11_Witness ==
    \E match \in MatchesSeen :
        /\ match.end > match.start
        /\ Len(match.boxes) = 3
        /\ text[match.boxes[2].node] = <<>>

\* C12: a problem local to one term aborts nothing else.  Whatever the term
\* patterns, one that can match the empty string included, the matcher ends
\* without indexing past the last text node of the flow and gives the spans
\* of every term; and the engine started with such terms caches every flow
\* of the document.
C12_TermProblemStaysLocal ==
    /\ \A match \in MatchesSeen : ~match.threw
    /\ Len(fnSpans) = Len(fnTerms)
    /\ ptPhase # "failed"
    /\ ptPhase = "started" =>
           \A k \in 1..Len(slicedTextFlows(Body)) :
               \E e \in Elements : \E j \in 1..Len(elementInfo[e].flows) :
                   elementInfo[e].flows[j].nodeStart = slicedTextFlows(Body)[k][1]

(***************************************************************************)
(* Flow segmentation on its own                                            *)
(***************************************************************************)

\* The documents segmented by the overlay engine: every part of the full
\* document that holds the parent of each node it holds.
SegDocuments ==
    {held \in SUBSET Nodes :
        Body \in held /\ \A n \in held \ {Body} : HomeParent[n] \in held}

\* The documents segmented by the DOM-splitting engine:
\*   body(1) > [ #text(2), outer(3) > [ #text(4), inner(5) > [ #text(6) ],
\*               leaf(7), #text(8) ], script(9) > [ #text(10) ], #text(11) ]
OuterTags == {"p", "span"}
InnerTags == {"span", "div", "script"}
LeafTags == {"br", "wbr"}
ElBlockDocument(outer, inner, leaf) ==
    << [createElement("body") EXCEPT !.kids = <<2, 3, 9, 11>>],
       [createTextNode(<<"a">>) EXCEPT !.parent = 1],
       [createElement(outer) EXCEPT !.parent = 1, !.kids = <<4, 5, 7, 8>>],
       [createTextNode(<<"a">>) EXCEPT !.parent = 3],
       [createElement(inner) EXCEPT !.parent = 3, !.kids = <<6>>],
       [createTextNode(<<"b">>) EXCEPT !.parent = 5],
       [createElement(leaf) EXCEPT !.parent = 3],
       [createTextNode(<<"a">>) EXCEPT !.parent = 3],
       [createElement("script") EXCEPT !.parent = 1, !.kids = <<10>>],
       [createTextNode(<<"b">>) EXCEPT !.parent = 9],
       [createTextNode(<<"b">>) EXCEPT !.parent = 1] >>

\* Either engine is constructed on one of its documents; nothing is
\* segmented yet.
SegInit ==
    /\ FnIdle
    /\ \/ /\ \E held \in SegDocuments : attached = held
          /\ text = [n \in TextNodes |-> <<"a", "b">>]
          /\ PtEngineNew("new")
          /\ ElIdle
       \/ /\ PtIdle
          /\ \E outer \in OuterTags, inner \in InnerTags, leaf \in LeafTags :
                 elDom = ElBlockDocument(outer, inner, leaf)
          /\ elTerms = <<>>
          /\ elHues = <<>>
          /\ elObserving = FALSE
          /\ elPhase = "new"
          /\ elStarts = 0
          /\ elRepeat = 0

\* getTextFlows(flowOwner.firstChild), and the slice of it that
\* calculateBoxesInfo(terms, flowOwner) passes on, for an element that can be
\* highlighted.
GetTextFlows ==
    /\ ptPhase = "new"
    /\ fnRoot = 0
    /\ \E flowOwner \in Elements :
           /\ InDocument(flowOwner)
           /\ canHighlightElement(flowOwner)
           /\ childNodes(flowOwner) # <<>>
           /\ fnRoot' = flowOwner
           /\ fnFlows' = getTextFlows(childNodes(flowOwner), << <<>> >>)
           /\ fnPassed' = slicedTextFlows(flowOwner)
    /\ UNCHANGED <<fnTerms, fnFlow, fnSpans, ptVars, fnOthers>>

\* generateHighlightsUnderNode(terms, document.body) of the DOM-splitting
\* engine, with the lists it passes to highlightInBlock.
InsertHighlights ==
    /\ elPhase = "new"
    /\ fnRoot = 0
    /\ \E terms \in TermLists :
           /\ fnRoot' = 1
           /\ fnFlows' = highlightedInBlocks(elDom, terms, 1)
           /\ elDom' = Canonical(generateHighlightsUnderNode(elDom, terms, 1))
    /\ UNCHANGED <<fnPassed, fnTerms, fnFlow, fnSpans>>
    /\ UNCHANGED <<elTerms, elHues, elObserving, elPhase, elStarts, elRepeat>>
    /\ UNCHANGED <<rcVars, mhVars, mgVars, ptVars, obVars, wkVars, mkVars, iqVars, tmVars, stVars, cmVars>>

SegNext == GetTextFlows \/ InsertHighlights

\* The pairs of nodes that stand in one flow of a sequence of flows.
InOneFlow(textFlows) ==
    UNION {{<<textFlows[k][i], textFlows[k][j]>> : i, j \in 1..Len(textFlows[k])} :
              k \in 1..Len(textFlows)}

\* An opening or closing boundary of a non-flow element that is not rejected
\* lies between the nodes a and b of the overlay engine's document (nodes are
\* numbered in document order).
breakBetween(a, b) ==
    \E e \in Elements :
        /\ InDocument(e)
        /\ ~flowHas(e)
        /\ canHighlightElement(e)
        /\ \/ contains(e, a) # contains(e, b)
           \/ Min(a, b) < e /\ e < Max(a, b)

\* The same in a document d of the DOM-splitting engine.
elContains(d, ancestor, node) ==
    \E k \in 1..Len(elSubtree(d, ancestor)) : elSubtree(d, ancestor)[k] = node

RECURSIVE elRejected(_, _)
elRejected(d, node) ==
    IF node = 0 THEN FALSE
    ELSE IF d[node].tag \in highlightTagsReject THEN TRUE
    ELSE elRejected(d, d[node].parent)

elPlace(d, node) == IndexIn(elSubtree(d, 1), node)

elBreakBetween(d, a, b) ==
    \E e \in 1..Len(d) :
        /\ d[e].tag \notin ({"#text"} \cup highlightTagsFlow)
        /\ ~elRejected(d, e)
        /\ \/ elContains(d, e, a) # elContains(d, e, b)
           \/ /\ Min(elPlace(d, a), elPlace(d, b)) < elPlace(d, e)
              /\ elPlace(d, e) < Max(elPlace(d, a), elPlace(d, b))

\* C13: in the result of flow segmentation, two text nodes are in the same
\* flow only if no opening or closing boundary of a non-flow, non-rejected
\* element lies between them in document order: for the flows getTextFlows
\* returns, and for the lists insertHighlights passes to highlightInBlock.
C13_FlowsStopAtBlocks ==
    /\ [](ptPhase = "new" /\ fnRoot # 0 =>
            \A pair \in InOneFlow(fnFlows) : ~breakBetween(pair[1], pair[2]))
    /\ [][(elPhase = "new" /\ fnRoot = 0 /\ fnRoot' # 0) =>
            \A pair \in InOneFlow(fnFlows') : ~elBreakBetween(elDom, pair[1], pair[2])]_vars

\* getTextFlows has split the content of an element at its blocks, and left
\* two text nodes of different inline elements in one flow.
C13_Witness ==
    /\ ptPhase = "new"
    /\ fnRoot # 0
    /\ Len(fnFlows) >= 3
    /\ \E pair \in InOneFlow(fnFlows) : parentElement(pair[1]) # parentElement(pair[2])

\* The nodes of a sequence of flows, in the order of the flows.
RECURSIVE flatten(_)
flatten(textFlows) ==
    IF textFlows = <<>> THEN <<>> ELSE Head(textFlows) \o flatten(Tail(textFlows))

\* The text nodes under root that are not inside a reject-tagged element, in
\* document order.
textNodesUnder(root) ==
    SelectSeq(NodeSeq, LAMBDA n : /\ n \in TextNodes
                                  /\ n \in attached
                                  /\ contains(root, n)
                                  /\ canHighlightElement(parentElement(n)))

\* C14: getTextFlows returns each text node under its root that is not inside
\* a reject-tagged element exactly once, and none inside a reject-tagged
\* element; the flows in order, and the nodes of each in order, give those
\* text nodes in document order.
C14_EveryTextNodeOnceInOrder ==
    ptPhase = "new" /\ fnRoot # 0 => flatten(fnFlows) = textNodesUnder(fnRoot)

\* The whole document was segmented, with the script element and its text in
\* it and text in four different elements.
C14_Witness ==
    /\ ptPhase = "new"
    /\ fnRoot = Body
    /\ attached = Nodes
    /\ Len(flatten(fnFlows)) >= 5

\* C15: every flow that calculateBoxesInfo passes to cacheFlowWithBoxesInfo
\* holds a text node: of the flows of getTextFlows only the first and the
\* last can be empty, and the slice drops each of them when it is empty, and
\* both when the owner is an inline element.
C15_PassedFlowsHoldText ==
    ptPhase = "new" /\ fnRoot # 0 =>
        /\ \A k \in 1..Len(fnPassed) : fnPassed[k] # <<>>
        /\ \A k \in 2..(Len(fnFlows) - 1) : fnFlows[k] # <<>>
        /\ fnPassed = SubSeq(fnFlows,
                             IF flowHas(fnRoot) \/ fnFlows[1] = <<>> THEN 2 ELSE 1,
                             IF flowHas(fnRoot) \/ fnFlows[Len(fnFlows)] = <<>>
                             THEN Len(fnFlows) - 1 ELSE Len(fnFlows))

\* The first and the last flow were empty and were dropped, and flows with
\* text were passed on.
C15_Witness ==
    /\ ptPhase = "new"
    /\ fnRoot # 0
    /\ Len(fnFlows) >= 4
    /\ fnFlows[1] = <<>>
    /\ fnFlows[Len(fnFlows)] = <<>>
    /\ Len(fnPassed) = Len(fnFlows) - 2

(***************************************************************************)
(* Where the overlay engine caches a flow                                  *)
(***************************************************************************)

\* The last step was a recompute: startHighlighting, or an observer callback
\* that recalculated the flows of some element.
Recomputed ==
    /\ ptPhase = "started"
    /\ \/ ptRepeat >= 1
       \/ visitMutations([c |-> Cache, elements |-> <<>>, threw |-> FALSE],
                         processed).elements # <<>>

\* The elements that contain both the first and the last text node of a flow.
holdersOf(flow) ==
    {e \in Elements : contains(e, flow.nodeStart) /\ contains(e, flow.nodeEnd)}

C16_Witness ==
    /\ Recomputed
    /\ processed # <<>>
    /\ \E e \in Elements : \E k \in 1..Len(elementInfo[e].flows) :
           parentElement(elementInfo[e].flows[k].nodeStart) # e

(***************************************************************************)
(* The overlay engine under a script that inserts and removes in bursts    *)
(***************************************************************************)

\* The nodes the script removes and inserts again here (the span with its
\* text, and the text after it), and the records one callback receives.
ChurnNodes == {6, 8}
MaxChurnRecords == 3
ChurnTermLists == {<< <<"a", "b">>, <<"b">> >>}

\* The engine is constructed on any of the documents.
ChurnInit ==
    /\ \E detached \in SUBSET ChurnNodes : attached = PageNodes \ detached
    /\ \E written \in [MutableTexts -> TextValues] :
           text = [n \in TextNodes |-> IF n \in MutableTexts THEN written[n] ELSE FixedText[n]]
    /\ PtEngineNew("new")
    /\ FnIdle

\* startHighlighting(terms, hues) on the engine as constructed.
ChurnStart ==
    /\ ptPhase = "new"
    /\ \E terms \in ChurnTermLists, hues \in HueLists : ptStartHighlighting(terms, hues)

ChurnSetText == ptPhase = "started" /\ SetTextWithin(MaxChurnRecords)
ChurnInsertNode == ptPhase = "started" /\ InsertNodeOf(ChurnNodes, MaxChurnRecords)
ChurnRemoveNode == ptPhase = "started" /\ RemoveNodeOf(ChurnNodes, MaxChurnRecords)

ChurnNext ==
    \/ ChurnStart
    \/ ChurnSetText
    \/ ChurnInsertNode
    \/ ChurnRemoveNode
    \/ PtMutationsObserved

\* What the callback collected from the records it has just processed, and
\* the element whose flows its last recompute calculated (0: none).
VisitedLast == visitMutations([c |-> Cache, elements |-> <<>>, threw |-> FALSE], processed)
ownerLast ==
    IF VisitedLast.threw \/ VisitedLast.elements = <<>> THEN 0
    ELSE flowOwnerFromContent(VisitedLast.elements[Len(VisitedLast.elements)])

\* The flows of the last recompute, and the element each is cached in.
flowsLast == IF ownerLast = 0 THEN <<>> ELSE slicedTextFlows(ownerLast)
ancestorOf(textFlow) ==
    getAncestorCommon(parentElement(textFlow[1]), textFlow[Len(textFlow)])

\* The flows an element caches that start at a node.
cachedFrom(e, node) ==
    {k \in 1..Len(elementInfo[e].flows) : elementInfo[e].flows[k].nodeStart = node}

\* C17: if the common ancestor computed for a flow has no cache entry, that
\* flow alone is skipped: no span of it is stored anywhere, and every other
\* flow of the same recompute pass is cached, once, with the spans of its
\* matches.
C17_FlowWithoutCacheSkippedAlone ==
    ptPhase = "started" /\ processed # <<>> =>
        \A i \in 1..Len(flowsLast) :
            IF elementInfo[ancestorOf(flowsLast[i])].has
            THEN \E k \in cachedFrom(ancestorOf(flowsLast[i]), flowsLast[i][1]) :
                     /\ cachedFrom(ancestorOf(flowsLast[i]), flowsLast[i][1]) = {k}
                     /\ elementInfo[ancestorOf(flowsLast[i])].flows[k].nodeEnd
                            = flowsLast[i][Len(flowsLast[i])]
                     /\ elementInfo[ancestorOf(flowsLast[i])].flows[k].boxesInfo
                            = boxesOfTerms(ptTerms, flowsLast[i]).boxes
            ELSE \A e \in Elements : cachedFrom(e, flowsLast[i][1]) = {}

\* A recompute met a flow whose ancestor has no cache entry, after a flow it
\* cached with a span and before a flow it cached.
C17_Witness ==
    /\ ptPhase = "started"
    /\ processed # <<>>
    /\ \E i \in 2..(Len(flowsLast) - 1) :
           /\ ~elementInfo[ancestorOf(flowsLast[i])].has
           /\ \E k \in cachedFrom(ancestorOf(flowsLast[i - 1]), flowsLast[i - 1][1]) :
                  elementInfo[ancestorOf(flowsLast[i - 1])].flows[k].boxesInfo # <<>>
           /\ cachedFrom(ancestorOf(flowsLast[i + 1]), flowsLast[i + 1][1]) # {}

\* C18: after startHighlighting, and after every processed mutation batch, an
\* element under the document body has a cache entry if and only if neither
\* it nor any of its ancestors is reject-tagged.
C18_CacheEntryIffEligible ==
    ptPhase = "started" /\ records = <<>> =>
        \A e \in Elements :
            InDocument(e) /\ e # Body => (elementInfo[e].has <=> canHighlightElement(e))

(***************************************************************************)
(* Counting the occurrences of a term                                      *)
(***************************************************************************)

\* The elements of the document whose cache holds a span of `term`.
ownersOf(term) ==
    {e \in Elements :
        /\ InDocument(e)
        /\ \E k \in 1..Len(elementInfo[e].flows) :
               \E j \in 1..Len(elementInfo[e].flows[k].boxesInfo) :
                   elementInfo[e].flows[k].boxesInfo[j].term = term}

\* C19: with no mutation pending, countFaster(t) is the number of distinct
\* owner elements whose cache holds at least one span of the term t: an owner
\* with several matches counts once, and every owner of the document counts,
\* the body included.
C19_CountIsNumberOfOwners ==
    ptPhase = "started" /\ records = <<>> =>
        \A term \in AllTerms : countFaster(term) = Cardinality(ownersOf(term))

\* A MatchTerm object a counting query is made with: its phrase (with its
\* match mode), and whether it is the object that startHighlighting was given
\* for that phrase or another object holding the same phrase and mode.
TermObjects == [phrase : AllTerms, passed : BOOLEAN]

\* termEquals(termA, termB): equal phrase and match mode
termEquals(termA, termB) == termA.phrase = termB.phrase

\* countFaster(term) and exists(term) for a term object.  A box holds the
\* object startHighlighting was given, so `boxInfo.term === term` is true of
\* no box when `term` is another object.
countFasterOf(term) == IF term.passed THEN countFaster(term.phrase) ELSE 0
existsOf(term) == term.passed /\ exists(term.phrase)

\* C20: counting queries identify terms structurally: for two term objects
\* with equal phrase and match mode, countFaster and exists return the same
\* results, even when only one of the two is the object that was passed to
\* startHighlighting.
C20_CountingIsStructural ==
    ptPhase = "started" =>
        \A termA, termB \in TermObjects :
            termEquals(termA, termB) =>
                /\ countFasterOf(termA) = countFasterOf(termB)
                /\ existsOf(termA) = existsOf(termB)

(***************************************************************************)
(* The content script's term list: refreshTermControlsAndBeginHighlighting *)
(***************************************************************************)

MaxTermCount == 2    \* terms in a list the content script is sent

\* The phrases of the terms, and the term lists an update carries.
Phrases == {<<"a", "b">>, <<"b">>, <<"a">>}
UpdateLists ==
    {update \in UNION {[1..n -> Phrases] : n \in 0..MaxTermCount} :
        \A i, j \in 1..Len(update) : update[i] = update[j] => i = j}

\* termEquals(termsA[i], termsB[j]) on 0-based indexes; an index outside the
\* array gives undefined, and two undefined terms are equal.
termEqualsAt(termsA, i, termsB, j) ==
    \/ i \notin 0..Len(termsA) - 1 /\ j \notin 0..Len(termsB) - 1
    \/ /\ i \in 0..Len(termsA) - 1
       /\ j \in 0..Len(termsB) - 1
       /\ termsA[i + 1] = termsB[j + 1]

\* termToUpdateIdx and termUpdate: kind is "REMOVE", "CREATE", "index" (the
\* term at idx is replaced) or "undefined".
NoTermChange == [kind |-> "undefined", idx |-> 0, term |-> <<>>]

\* while (termsUpdateCopy.length && termsCopy.length) { ... }
RECURSIVE termChangeScan(_, _, _)
termChangeScan(termsCopy, termsUpdateCopy, i) ==
    IF termsUpdateCopy = <<>> \/ termsCopy = <<>> THEN NoTermChange
    ELSE IF termEqualsAt(termsUpdateCopy, 0, termsCopy, 0)
    THEN termChangeScan(Tail(termsCopy), Tail(termsUpdateCopy), i + 1)
    ELSE IF termEqualsAt(termsUpdateCopy, 0, termsCopy, 1)
    THEN [kind |-> "REMOVE", idx |-> 0, term |-> termsCopy[1]]
    ELSE IF termEqualsAt(termsUpdateCopy, 1, termsCopy, 0)
    THEN [kind |-> "CREATE", idx |-> 0, term |-> termsUpdateCopy[1]]
    ELSE IF termEqualsAt(termsUpdateCopy, 1, termsCopy, 1)
    THEN [kind |-> "index", idx |-> i, term |-> termsUpdateCopy[1]]
    ELSE NoTermChange

\* The first part of refreshTermControlsAndBeginHighlighting: which term the
\* update is taken to remove, create or replace.
termChange(terms, update) ==
    IF /\ Len(update) < Len(terms)
       /\ (Len(terms) = 1 \/ termEqualsAt(update, Len(update) - 1, terms, Len(terms) - 2))
    THEN [kind |-> "REMOVE", idx |-> 0, term |-> terms[Len(terms)]]
    ELSE IF /\ Len(update) > Len(terms)
            /\ (Len(update) = 1 \/ termEqualsAt(update, Len(update) - 2, terms, Len(terms) - 1))
    THEN [kind |-> "CREATE", idx |-> 0, term |-> update[Len(update)]]
    ELSE termChangeScan(terms, update, 0)

\* terms.splice(index, 1), index being 0-based
spliceOne(terms, index) == SubSeq(terms, 1, index) \o SubSeq(terms, index + 2, Len(terms))

\* The second part, up to fillStylesheetContent: what it leaves in terms,
\* termsToHighlight and termsToPurge, the elementsRestore call it makes
\* (restores: it makes one; classNames: its argument), the terms it gives to
\* boxesInfoRemoveForTerms, and whether it goes on to highlight (begins).
\* `toolbar`: document.getElementById(EleID.BAR) finds the toolbar.
termsRefreshed(terms, update, toolbar) ==
    LET change == termChange(terms, update)
    IN  IF toolbar /\ change.kind = "CREATE"
        THEN [terms |-> Append(terms, change.term), termsToHighlight |-> <<change.term>>,
              termsToPurge |-> <<>>, restores |-> FALSE, classNames |-> <<>>,
              removed |-> <<>>, begins |-> TRUE]
        ELSE IF toolbar /\ change.kind = "index"
        THEN \* terms[termToUpdateIdx] = termUpdate; termsToPurge.push(terms[termToUpdateIdx])
             [terms |-> [terms EXCEPT ![change.idx + 1] = change.term],
              termsToHighlight |-> <<change.term>>,
              termsToPurge |-> <<[terms EXCEPT ![change.idx + 1] = change.term][change.idx + 1]>>,
              restores |-> FALSE, classNames |-> <<>>, removed |-> <<>>, begins |-> TRUE]
        ELSE IF toolbar /\ change.kind = "REMOVE"
        THEN [terms |-> spliceOne(terms, IndexIn(terms, change.term) - 1),
              termsToHighlight |-> <<>>, termsToPurge |-> <<>>,
              restores |-> TRUE, classNames |-> <<change.term>>,
              removed |-> <<change.term>>, begins |-> FALSE]
        ELSE [terms |-> update, termsToHighlight |-> <<>>, termsToPurge |-> <<>>,
              restores |-> TRUE, classNames |-> <<>>, removed |-> <<>>, begins |-> TRUE]

\* The updates that add a term to the list, remove one or replace one, at any
\* place of the list; the first list the page is sent is any list.
TermUpdates(terms) ==
    {update \in UpdateLists :
        \/ terms = <<>>
        \/ \E k \in 1..Len(update) : spliceOne(update, k - 1) = terms
        \/ \E k \in 1..Len(terms) : spliceOne(terms, k - 1) = update
        \/ /\ Len(update) = Len(terms)
           /\ \E k \in 1..Len(terms) :
                  update[k] # terms[k] /\ spliceOne(update, k - 1) = spliceOne(terms, k - 1)}

\* beginHighlighting(terms, termsToPurge), on the document
beginHighlighting(d, terms, purged) ==
    generateHighlightsUnderNode(
        IF purged # <<>> THEN elementsRestoreClasses(d, purged, 1) ELSE d, terms, 1)

\* The handler with controlsInfo.paintReplaceByClassic set, the highlighting
\* it defers with setTimeout included: the timer is due at once and is taken
\* to fire before the next update arrives.
classicRefreshed(d, outcome) ==
    IF outcome.begins
    THEN beginHighlighting(
             IF outcome.restores THEN elementsRestoreClasses(d, outcome.classNames, 1) ELSE d,
             IF outcome.termsToHighlight # <<>> THEN outcome.termsToHighlight ELSE outcome.terms,
             outcome.termsToPurge)
    ELSE elementsRestoreClasses(d, outcome.classNames, 1)

RefreshClassicWith(update, outcome) ==
    /\ elDom' = Canonical(classicRefreshed(elDom, outcome))
    /\ elTerms' = outcome.terms
    /\ elObserving' = (outcome.begins \/ elObserving)
    /\ elPhase' = "started"
    /\ elStarts' = elStarts + 1
    /\ elRepeat' = 0
    /\ termsUpdate' = update
    /\ UNCHANGED <<elHues, obEngineVars>>
    /\ UNCHANGED <<ptVars, obOthers>>

RefreshClassic ==
    /\ elPhase \in {"new", "started"}
    /\ elStarts < MaxElementStarts
    /\ \E update \in TermUpdates(elTerms) :
           RefreshClassicWith(update, termsRefreshed(elTerms, update, elPhase = "started"))

\* The handler with the overlay highlighting of the content script.
paintRefreshed(c, outcome) ==
    IF outcome.begins
    THEN calculateBoxesInfo(
             removeBoxesInfoForTerms(extendCache(c, Body), outcome.termsToPurge),
             outcome.terms, Body)
    ELSE removeBoxesInfoForTerms(c, outcome.removed)

RefreshPaintWith(update, outcome, cached) ==
    /\ elementInfo' = cached.info
    /\ highlightingIds' = cached.ids
    /\ ptTerms' = outcome.terms
    /\ ptObserving' = ((outcome.begins /\ ~cached.threw) \/ ptObserving)
    /\ ptPhase' = IF cached.threw THEN "failed" ELSE "started"
    /\ processed' = <<>>
    /\ ptRepeat' = 0
    /\ termsUpdate' = update
    /\ UNCHANGED obEngineVars
    /\ UNCHANGED <<attached, text, ptHues, records, elVars, obOthers>>

RefreshPaintFor(update, outcome) ==
    RefreshPaintWith(update, outcome, paintRefreshed(Cache, outcome))

RefreshPaint ==
    /\ ptPhase \in {"new", "started"}
    /\ \E update \in TermUpdates(ptTerms) :
           RefreshPaintFor(update, termsRefreshed(ptTerms, update, ptPhase = "started"))

TermsNext == RefreshClassic \/ RefreshPaint

\* The terms of a list, and the terms of the spans cached for an element.
termsOf(terms) == {terms[k] : k \in 1..Len(terms)}
spanTermsOf(info, e) ==
    UNION {{info[e].flows[k].boxesInfo[j].term : j \in 1..Len(info[e].flows[k].boxesInfo)} :
              k \in 1..Len(info[e].flows)}

\* The spans that highlighting the document from nothing with the terms of
\* the last update caches.
FreshlyCached == calculateBoxesInfo(extendCache(Cache, Body), termsUpdate, Body).info

\* C21: after an update of the term list has been applied, the highlights are
\* those of the terms of the new list: no marker and no cached span is of
\* another term, and every term of the new list is highlighted where it
\* occurs (a marker with text in the document's flow, a span in every element
\* that highlighting from nothing gives one).
C21_HighlightsAreOfNewTerms ==
    /\ elPhase = "started" =>
           /\ \A m \in Markers(elDom) : m.term \in termsOf(termsUpdate)
           /\ \A term \in termsOf(termsUpdate) :
                  matchAll(elTextContent(elDom, 1), term, 0) # <<>> =>
                      \E m \in Markers(elDom) : m.term = term /\ m.text # <<>>
    /\ ptPhase = "started" =>
           \A e \in Elements :
               InDocument(e) =>
                   /\ spanTermsOf(elementInfo, e) \subseteq termsOf(termsUpdate)
                   /\ spanTermsOf(FreshlyCached, e) \subseteq spanTermsOf(elementInfo, e)

\* C35: after an update of the term list has been processed, the term list
\* of the page is the list of the update, term for term and in its order,
\* whatever the list was before.
C35_TermsAreTheUpdate ==
    /\ elPhase = "started" => elTerms = termsUpdate
    /\ ptPhase = "started" => ptTerms = termsUpdate

(***************************************************************************)
(* The DOM-splitting engine's mutation updates                             *)
(*                                                                         *)
(* A record of the observer is [target, type, own].  The callback reads of *)
(* a record the element (target, or its parent for a text node) and        *)
(* whether the type is "childList", so the records of one insertion by     *)
(* highlightInsideNode (the text change and one or two child-list changes, *)
(* all of them with the same parent element) are kept as one child-list    *)
(* record of that parent.                                                  *)
(*                                                                         *)
(* The records of a task or callback are delivered in the microtask after  *)
(* it: a task (a page script, startHighlighting, endHighlighting, a timer) *)
(* begins with none queued, and the records of the engine's own pass are   *)
(* delivered before page scripts run again.                                *)
(***************************************************************************)

MaxPageChanges == 4       \* changes page scripts make in one run
MaxTaskChanges == 2       \* changes a page script makes before the observer is called
MaxObserveStarts == 1     \* startHighlighting calls in one run of the observed engine
PeriodIntervalMin == 400  \* if (periodInterval > 400)
RateLimit == 6            \* throttling = periodHighlightRate > 0.006, in highlights per second

\* Date.now() - periodDateLast, in ms, when highlightElementsLimited runs
PeriodIntervals == {100, 401, 1000}

\* The terms highlighting is started with, the texts of the documents and the
\* texts page scripts write.
ObTermLists == {<< <<"a">> >>}
ObTextValues == {<<"a">>, <<"b">>}

\* The documents: body(1) > p(2) > [ #text(3), span(4) > [ #text(5) ] ]
ObDocument(x, y) ==
    << [createElement("body") EXCEPT !.kids = <<2>>],
       [createElement("p") EXCEPT !.parent = 1, !.kids = <<3, 4>>],
       [createTextNode(x) EXCEPT !.parent = 2],
       [createElement("span") EXCEPT !.parent = 2, !.kids = <<5>>],
       [createTextNode(y) EXCEPT !.parent = 4] >>

\* element.contains(node)
RECURSIVE elInside(_, _, _)
elInside(d, element, node) ==
    IF node = 0 THEN FALSE
    ELSE IF node = element THEN TRUE
    ELSE elInside(d, element, d[node].parent)

\* root.querySelectorAll("mms-h"), in document order
markersUnder(d, root) == SelectSeq(Tail(elSubtree(d, root)), LAMBDA n : d[n].tag = "mms-h")

\* canHighlightElement(element)
elCanHighlightElement(d, element) == ~elRejected(d, element) /\ d[element].tag # "mms-h"

\* The records of elementsRestore([], root) with the observer connected: each
\* marker is replaced in its parent.
recordsOfParents(d, markers) ==
    [k \in 1..Len(markers) |->
        [target |-> d[markers[k]].parent, type |-> "childList", own |-> TRUE]]

restoreRecords(d, root) == recordsOfParents(d, Reverse(markersUnder(d, root)))

\* The records of generateHighlightsUnderNode with the observer connected, from
\* the store before and after it: each marker created was inserted in its parent.
createdMarkers(before, after) ==
    SelectSeq([k \in 1..Len(after) - Len(before) |-> Len(before) + k],
              LAMBDA n : after[n].tag = "mms-h")
generateRecords(before, after) == recordsOfParents(after, createdMarkers(before, after))

\* highlightElements(): for (const element of elements) { elementsRestore([],
\* element); generateHighlightsUnderNode(terms.current, element); } on
\* s = [d, recs, last]: the store, the records of the edits, and whether the
\* latest generateHighlightsUnderNode call created a marker.
RECURSIVE highlightElementsEach(_, _, _)
highlightElementGenerated(s, element, restored, generated) ==
    [d |-> generated,
     recs |-> s.recs \o restoreRecords(s.d, element) \o generateRecords(restored, generated),
     last |-> createdMarkers(restored, generated) # <<>>]

highlightElementRestored(s, element, restored, terms) ==
    highlightElementGenerated(s, element, restored,
                              generateHighlightsUnderNode(restored, terms, element))

highlightElementsEach(s, elements, terms) ==
    IF elements = <<>> THEN s
    ELSE highlightElementsEach(
             highlightElementRestored(s, Head(elements), elementsRestore(s.d, Head(elements)),
                                      terms),
             Tail(elements), terms)

highlightElements(d, elements, terms) ==
    highlightElementsEach([d |-> d, recs |-> <<>>, last |-> FALSE], elements, terms)

\* mutation.target.nodeType === Node.TEXT_NODE ? mutation.target.parentElement
\* : mutation.target (0 for null)
mutationElement(d, mutation) ==
    IF d[mutation.target].tag = "#text" THEN d[mutation.target].parent ELSE mutation.target

\* The body of `for (const mutation of mutations)` on s = [known, elements]
elVisitMutation(d, s, mutation) ==
    IF mutationElement(d, mutation) = 0 THEN s
    ELSE IF d[mutationElement(d, mutation)].known
    THEN [s EXCEPT !.known = setAdd(@, mutationElement(d, mutation))]
    ELSE IF /\ (mutation.type = "childList"
                   \/ markersUnder(d, mutationElement(d, mutation)) = <<>>)
            /\ elCanHighlightElement(d, mutationElement(d, mutation))
    THEN [s EXCEPT !.elements = setAdd(@, mutationElement(d, mutation))]
    ELSE s

RECURSIVE elVisitMutations(_, _, _)
elVisitMutations(d, s, mutations) ==
    IF mutations = <<>> THEN s
    ELSE elVisitMutations(d, elVisitMutation(d, s, Head(mutations)), Tail(mutations))

\* for (const element of elementsKnown) { delete element["markmysearchKnown"]; }
deleteKnown(d, elementsKnown) ==
    [n \in 1..Len(d) |->
        IF \E k \in 1..Len(elementsKnown) : elementsKnown[k] = n
        THEN [d[n] EXCEPT !.known = FALSE] ELSE d[n]]

\* The elements left once every element inside another one of the set is deleted.
outermost(d, elements) ==
    SelectSeq(elements, LAMBDA other :
        ~\E k \in 1..Len(elements) :
            elements[k] # other /\ elInside(d, elements[k], other))

\* The elements of elAwaiting that a pass over `elements` does not reach.
stillAwaiting(d, elements) ==
    {e \in elAwaiting : ~\E k \in 1..Len(elements) : elInside(d, elements[k], e)}

\* A node's identity is its place: after each step the nodes are numbered in
\* document order, followed by the detached nodes that a queued record or the
\* observer's set still names (kept without the nodes under them).
referredOrder(d, queue, elements) ==
    elSubtree(d, 1)
    \o SelectSeq([n \in 1..Len(d) |-> n],
                 LAMBDA n : /\ ~elInside(d, 1, n)
                            /\ \/ \E k \in 1..Len(queue) : queue[k].target = n
                               \/ \E k \in 1..Len(elements) : elements[k] = n)

\* node -> its place in the order (0: it has none)
placesIn(d, order) ==
    [n \in 0..Len(d) |->
        IF \E k \in 1..Len(order) : order[k] = n THEN IndexIn(order, n) ELSE 0]

keptKids(kids, place) == SelectSeq(kids, LAMBDA n : place[n] # 0)

renumbered(d, order, place) ==
    [i \in 1..Len(order) |->
        [tag |-> d[order[i]].tag, data |-> d[order[i]].data, term |-> d[order[i]].term,
         known |-> d[order[i]].known,
         parent |-> place[d[order[i]].parent],
         kids |-> [k \in 1..Len(keptKids(d[order[i]].kids, place)) |->
                      place[keptKids(d[order[i]].kids, place)[k]]]]]

\* The document, the records queued, the observer's set and the elements
\* awaiting a pass that a step leaves.
ObLeavesAt(d, queue, elements, awaiting, order, place) ==
    /\ elDom' = renumbered(d, order, place)
    /\ mutationQueue' = [k \in 1..Len(queue) |->
                            [queue[k] EXCEPT !.target = place[queue[k].target]]]
    /\ obElements' = [k \in 1..Len(elements) |-> place[elements[k]]]
    /\ elAwaiting' = {place[e] : e \in awaiting}

ObLeavesIn(d, queue, elements, awaiting, order) ==
    ObLeavesAt(d, queue, elements, awaiting, order, placesIn(d, order))

ObLeaves(d, queue, elements, awaiting) ==
    ObLeavesIn(d, queue, elements, awaiting, referredOrder(d, queue, elements))

\* The engine is constructed on any of the documents.
ObserveInit ==
    /\ \E x, y \in ObTextValues : elDom = ObDocument(x, y)
    /\ elTerms = <<>>
    /\ elHues = <<>>
    /\ elObserving = FALSE
    /\ elPhase = "new"
    /\ elStarts = 0
    /\ elRepeat = 0

\* startHighlighting(terms, hues)
ObStart ==
    /\ elStarts < MaxObserveStarts
    /\ elPhase \in {"new", "ended"}
    /\ mutationQueue = <<>>
    /\ \E terms \in ObTermLists, hues \in HueLists :
           /\ ObLeaves(generateHighlightsUnderNode(elementsRestore(elDom, 1), terms, 1),
                       <<>>, obElements, {})
           /\ elTerms' = terms
           /\ elHues' = hues
    /\ elObserving' = TRUE
    /\ elPhase' = "started"
    /\ elStarts' = elStarts + 1
    /\ elStale' = FALSE
    /\ ownPasses' = 0
    /\ UNCHANGED <<elRepeat, highlightIsPending, throttling, periodHighlightCount,
                   elMutations, termsUpdate>>
    /\ UNCHANGED <<ptVars, obOthers>>

\* endHighlighting()
ObEnd ==
    /\ elPhase = "started"
    /\ mutationQueue = <<>>
    /\ ObLeaves(elementsRestore(elDom, 1), <<>>, obElements, {})
    /\ elTerms' = <<>>
    /\ elHues' = <<>>
    /\ elObserving' = FALSE
    /\ elPhase' = "ended"
    /\ elStale' = FALSE
    /\ ownPasses' = 0
    /\ UNCHANGED <<elStarts, elRepeat, highlightIsPending, throttling, periodHighlightCount,
                   elMutations, termsUpdate>>
    /\ UNCHANGED <<ptVars, obOthers>>

\* A page script is running: the engine's own records have been delivered.
PageRuns ==
    /\ elPhase = "started"
    /\ elMutations < MaxPageChanges
    /\ Len(mutationQueue) < MaxTaskChanges
    /\ \A k \in 1..Len(mutationQueue) : ~mutationQueue[k].own

PageChanged(d, element, mutation) ==
    /\ ObLeaves(d, IF elObserving THEN Append(mutationQueue, mutation) ELSE mutationQueue,
                obElements, elAwaiting \cup {element})
    /\ elMutations' = elMutations + 1
    /\ ownPasses' = 0
    /\ UNCHANGED <<highlightIsPending, throttling, periodHighlightCount, elStale, termsUpdate>>
    /\ UNCHANGED <<elTerms, elHues, elObserving, elPhase, elStarts, elRepeat>>
    /\ UNCHANGED <<ptVars, obOthers>>

\* The element of the page that holds a node: its nearest ancestor that is
\* not a marker.
RECURSIVE elementOfPage(_, _)
elementOfPage(d, n) ==
    IF d[d[n].parent].tag = "mms-h" THEN elementOfPage(d, d[n].parent) ELSE d[n].parent

\* A page script changes the text of a text node of the document, in a marker
\* or not.
PageSetText ==
    /\ PageRuns
    /\ \E n \in 1..Len(elDom), data \in ObTextValues :
           /\ elDom[n].tag = "#text"
           /\ elInside(elDom, 1, n)
           /\ elDom[n].data # data
           /\ PageChanged([elDom EXCEPT ![n].data = data], elementOfPage(elDom, n),
                          [target |-> n, type |-> "characterData", own |-> FALSE])

\* A page script appends a text node to a paragraph.
PageAppendText ==
    /\ PageRuns
    /\ \E element \in 1..Len(elDom), data \in ObTextValues :
           /\ elDom[element].tag = "p"
           /\ PageChanged([Append(elDom, [createTextNode(data) EXCEPT !.parent = element])
                              EXCEPT ![element].kids = Append(@, Len(elDom) + 1)],
                          element,
                          [target |-> element, type |-> "childList", own |-> FALSE])

\* highlightElements() called by highlightElementsLimited, and the listeners
\* called after it.
ObPass(elements, count, highlighted) ==
    /\ ObLeaves(highlighted.d, highlighted.recs, <<>>, stillAwaiting(elDom, elements))
    /\ highlightIsPending' = FALSE
    /\ periodHighlightCount' = count + Len(elements)
    /\ elStale' = FALSE
    /\ ownPasses' = ownPasses + 1

\* if (throttling || highlightIsPending) { ... setTimeout(highlightElements, 100) }
ObDefer(elements, count) ==
    /\ ObLeaves(elDom, <<>>, elements, elAwaiting)
    /\ highlightIsPending' = TRUE
    /\ periodHighlightCount' = count
    /\ elStale' = FALSE
    /\ ownPasses' = ownPasses

\* highlightElementsLimited(), periodInterval ms after the period began
highlightElementsLimited(elements, periodInterval) ==
    LET reset == periodInterval > PeriodIntervalMin
        throttles == IF reset THEN periodHighlightCount * 1000 > RateLimit * periodInterval
                     ELSE throttling
        count == IF reset THEN 0 ELSE periodHighlightCount
    IN  /\ throttling' = throttles
        /\ IF throttles \/ highlightIsPending
           THEN ObDefer(elements, count)
           ELSE ObPass(elements, count, highlightElements(elDom, elements, elTerms))

\* The observer's callback on the records queued.  When an element of the
\* records is known, the markers are deleted and the callback returns.
ObDeliverVisited(visited) ==
    IF visited.known # <<>>
    THEN /\ ObLeaves(deleteKnown(elDom, visited.known), <<>>, visited.elements, elAwaiting)
         /\ UNCHANGED <<highlightIsPending, throttling, periodHighlightCount, elStale,
                        ownPasses>>
    ELSE \E periodInterval \in PeriodIntervals :
             highlightElementsLimited(outermost(elDom, visited.elements), periodInterval)

ObDeliver ==
    /\ mutationQueue # <<>>
    /\ ObDeliverVisited(elVisitMutations(elDom, [known |-> <<>>, elements |-> obElements],
                                         mutationQueue))
    /\ UNCHANGED <<elTerms, elHues, elObserving, elPhase, elStarts, elRepeat, elMutations,
                   termsUpdate>>
    /\ UNCHANGED <<ptVars, obOthers>>

\* The timer of highlightElementsLimited fires: highlightElements()
ObTimerPass(highlighted) ==
    /\ ObLeaves(highlighted.d, IF elObserving THEN highlighted.recs ELSE <<>>, <<>>,
                stillAwaiting(elDom, obElements))
    /\ elStale' = (elStale \/ highlighted.last)
    /\ periodHighlightCount' = periodHighlightCount + Len(obElements)
    /\ highlightIsPending' = FALSE
    /\ ownPasses' = ownPasses + 1

ObTimer ==
    /\ highlightIsPending
    /\ mutationQueue = <<>>
    /\ ObTimerPass(highlightElements(elDom, obElements, elTerms))
    /\ UNCHANGED <<elTerms, elHues, elObserving, elPhase, elStarts, elRepeat, elMutations,
                   throttling, termsUpdate>>
    /\ UNCHANGED <<ptVars, obOthers>>

ObNext == ObStart \/ ObEnd \/ PageSetText \/ PageAppendText \/ ObDeliver \/ ObTimer

\* Nothing is left for the engine to do: no record is queued and no pass is
\* scheduled.
ObQuiescent == mutationQueue = <<>> /\ ~highlightIsPending

\* C23: while highlighting is active, every change by a page script that
\* inserts or changes text in a highlightable element is followed by a
\* highlighting pass over that element without another change being needed:
\* once the engine has nothing left to do, no changed element is still
\* awaiting its pass.
C23_PageChangesGetHighlighted ==
    (elPhase = "started" /\ ObQuiescent) => elAwaiting = {}

\* C24: with no further change by page scripts the engine comes to rest: its
\* own insertions and restorations trigger at most two passes in a row, and
\* in the end no record is queued and no pass is scheduled, whether the edits
\* were made by startHighlighting or by a pass of the observer.
C24_OwnEditsReachQuiescence ==
    /\ [](ownPasses <= 2)
    /\ <>[]ObQuiescent

\* The engine is at rest after a pass that its own records had triggered:
\* page scripts changed the document, a pass restored markers without
\* inserting any, and the records of the restoration caused a second pass.
C24_Witness ==
    /\ ObQuiescent
    /\ elPhase = "started"
    /\ elMutations > 0
    /\ ownPasses = 2
    /\ elAwaiting = {}

\* C25: the observer is disconnected whenever the engine edits the document
\* itself, in startHighlighting, in a pass triggered by mutations and in a
\* deferred pass, so none of the engine's own edits is ever recorded.
C25_OwnEditsAreNotObserved ==
    \A k \in 1..Len(mutationQueue) : ~mutationQueue[k].own

\* C26: every change of the rendered highlights is followed by a call of the
\* highlighting-updated listeners, the changes made by a deferred pass
\* included: whenever the engine is at rest, the listeners have been called
\* since the highlights last changed.
C26_ChangesAreNotified ==
    ObQuiescent => ~elStale

(***************************************************************************)
(* The markers of the DOM-splitting engine                                 *)
(***************************************************************************)

MkIdle == elFlowText = <<>>

MarkTermLists == TermLists \cup {<< <<"b">>, <<"a", "b">> >>, << <<"a">> >>}

MarkInit ==
    /\ ElInit
    /\ elFlowText = <<>>

\* startHighlighting(terms, hues)
MarkStart ==
    /\ elStarts < MaxElementStarts
    /\ \E terms \in MarkTermLists, hues \in HueLists :
           /\ elDom' = Canonical(generateHighlightsUnderNode(elementsRestore(elDom, 1),
                                                             terms, 1))
           /\ elTerms' = terms
           /\ elHues' = hues
    /\ elFlowText' = elTextContent(elDom, 1)
    /\ elObserving' = TRUE
    /\ elPhase' = "started"
    /\ elStarts' = elStarts + 1
    /\ elRepeat' = 0
    /\ UNCHANGED mkOthers

\* endHighlighting()
MarkEnd ==
    /\ elPhase = "started"
    /\ elObserving' = FALSE
    /\ elDom' = Canonical(elementsRestore(elDom, 1))
    /\ elTerms' = <<>>
    /\ elHues' = <<>>
    /\ elPhase' = "ended"
    /\ elRepeat' = 0
    /\ UNCHANGED <<elStarts, elFlowText>>
    /\ UNCHANGED mkOthers

MarkNext == MarkStart \/ MarkEnd

\* The places of the document's text that stand in a marker of the term, and
\* the places of a text that a match of the term covers.
markedPlaces(d, term) ==
    UNION {{marker.start + k : k \in 1..Len(marker.text)} :
              marker \in {m \in Markers(d) : m.term = term}}

matchedPlacesOf(matches) ==
    UNION {{matches[j].index + k : k \in 1..matches[j].length} : j \in 1..Len(matches)}

matchedPlaces(flowText, term) == matchedPlacesOf(matchAll(flowText, term, 0))

\* C29: after startHighlighting, for every term the characters of its
\* matches in the flow's text, and no others, stand in markers of that term,
\* also when a match spans several text nodes or overlaps a match of another
\* term; the text of the flow is the text it had before.
C29_MatchesAreMarked ==
    elPhase = "started" =>
        /\ elTextContent(elDom, 1) = elFlowText
        /\ \A j \in 1..Len(elTerms) :
               markedPlaces(elDom, elTerms[j]) = matchedPlaces(elFlowText, elTerms[j])

\* A first startHighlighting has marked a match of "ab" that spans two text
\* nodes with one marker in each, and a match of "b" that overlaps it.
C29_Witness ==
    /\ elPhase = "started"
    /\ elStarts = 1
    /\ \E m1, m2 \in Markers(elDom) :
           /\ m1.term = <<"a", "b">> /\ m1.text = <<"a">>
           /\ m2.term = <<"a", "b">> /\ m2.text = <<"b">>
           /\ m2.start = m1.start + 1
    /\ markedPlaces(elDom, <<"b">>) \cap markedPlaces(elDom, <<"a", "b">>) # {}

(***************************************************************************)
(* The term walkers                                                        *)
(***************************************************************************)

WalkLen == 4              \* nodes of the document walked, the body included
MaxWraps == 3             \* wraps of one focusOnTermJump the model follows

\* A node of the document walked.  The nodes stand in document order, each
\* with its depth below the body.  An element of the overlay engine has boxes
\* of `term` in its flows (0: it has no ElementInfo); a marker of the
\* DOM-splitting engine has the class of `term`.
WalkNode(tag, term, visible, focusable) ==
    [tag |-> tag, term |-> term, visible |-> visible, focusable |-> focusable, depth |-> 0]

WalkShapes ==
    {shape \in [1..WalkLen -> 0..(WalkLen - 1)] :
        /\ shape[1] = 0
        /\ \A i \in 2..WalkLen : shape[i] >= 1 /\ shape[i] <= shape[i - 1] + 1}

walkShaped(bodyNode, nodes, shape) ==
    [i \in 1..WalkLen |->
        [(IF i = 1 THEN bodyNode ELSE nodes[i - 1]) EXCEPT !.depth = shape[i]]]

\* node.parentElement, 0 for the body
walkParent(doc, i) ==
    IF i = 1 THEN 0
    ELSE CHOOSE j \in 1..(i - 1) :
             /\ doc[j].depth = doc[i].depth - 1
             /\ \A k \in (j + 1)..(i - 1) : doc[k].depth >= doc[i].depth

\* a.contains(b)
walkContains(doc, a, b) ==
    a = b \/ (b > a /\ \A k \in (a + 1)..b : doc[k].depth > doc[a].depth)

\* A text node has no child, a marker has text only, an element with boxes
\* and a marker have a child, and what stands in an element that cannot take
\* the focus cannot take it either.
walkWellFormed(doc) ==
    \A i \in 2..WalkLen :
        /\ doc[walkParent(doc, i)].tag # "#text"
        /\ doc[walkParent(doc, i)].tag = "mms-h" => doc[i].tag = "#text"
        /\ doc[i].focusable => doc[walkParent(doc, i)].focusable
        /\ doc[i].term # 0 => (i < WalkLen /\ doc[i + 1].depth = doc[i].depth + 1)

WalkDocuments(bodies, kinds) ==
    {doc \in {walkShaped(bodyNode, nodes, shape) :
                 bodyNode \in bodies, nodes \in [1..(WalkLen - 1) -> kinds],
                 shape \in WalkShapes} :
        walkWellFormed(doc)}

WalkTerms == {1, 2}
NoStep == [called |-> FALSE]
WalkerIdle == [running |-> FALSE]

WkIdle ==
    /\ wkDoc = <<>>
    /\ wkSelected = 0
    /\ wkFocused = 0
    /\ wkWalker = WalkerIdle
    /\ wkResult = NoStep

SetMin(S) == CHOOSE x \in S : \A y \in S : x <= y
SetMax(S) == CHOOSE x \in S : \A y \in S : x >= y

\* walker.walkerNextNode() and walker.walkerPreviousNode() of a TreeWalker on the body
\* whose filter accepts the nodes of `accepted` and skips the others: the
\* nearest accepted node after, or before, the current one in document order.
walkerNextNode(accepted, current) ==
    IF {i \in accepted : i > current} = {} THEN 0
    ELSE SetMin({i \in accepted : i > current})

walkerPreviousNode(accepted, current) ==
    IF {i \in accepted : i < current} = {} THEN 0
    ELSE SetMax({i \in accepted : i < current})

walkerNode(reverse, accepted, current) ==
    IF reverse THEN walkerPreviousNode(accepted, current) ELSE walkerNextNode(accepted, current)

\* getNodeFinal(document.body)
getNodeFinal(doc) == Len(doc)

\* -- The overlay engine's walker --

\* The filter of step: the element has a flow with a box of the term (of any
\* term when none is given) and is visible.
stepAccepted(doc, term) ==
    {i \in 1..Len(doc) :
        /\ doc[i].tag # "#text"
        /\ IF term # 0 THEN doc[i].term = term ELSE doc[i].term # 0
        /\ doc[i].visible}

\* focusClosest(element, element => element[INFO] && !!element[INFO].flows),
\* the active element being the body: gives the new active element, 0 for the
\* body.
RECURSIVE focusClosest(_, _)
focusClosest(doc, element) ==
    IF doc[element].focusable THEN element
    ELSE IF doc[element].term # 0 /\ element # 1
         THEN focusClosest(doc, walkParent(doc, element))
         ELSE 0

\* nodeCurrent of step
stepCurrent(doc, selected, focused, reverse, nodeStart) ==
    LET nodeBegin == IF reverse THEN getNodeFinal(doc) ELSE 1
    IN  IF nodeStart # 0 THEN nodeStart
        ELSE IF focused # 0
             THEN (IF selected # 0
                   THEN (IF walkContains(doc, focused, selected) THEN selected ELSE focused)
                   ELSE focused)
             ELSE (IF selected # 0 THEN selected ELSE nodeBegin)

\* step(reverse, stepNotJump, term, nodeStart): the element returned (0 for
\* null), the element given the focus-container class, the scrolling, and the
\* selection and the active element it leaves.
RECURSIVE step(_, _, _, _, _, _, _)
step(doc, selected, focused, reverse, stepNotJump, term, nodeStart) ==
    LET nodeBegin == IF reverse THEN getNodeFinal(doc) ELSE 1
        nodeCurrent == stepCurrent(doc, selected, focused, reverse, nodeStart)
        element == walkerNode(reverse, stepAccepted(doc, term), nodeCurrent)
    IN  IF element = 0
        THEN IF nodeStart = 0
             THEN step(doc, selected, 0, stepNotJump, reverse, term, nodeBegin)
             ELSE [element |-> 0, container |-> 0, smooth |-> FALSE,
                   selected |-> selected, focused |-> 0]
        ELSE [element |-> element,
              container |-> IF stepNotJump THEN 0 ELSE element,
              smooth |-> ~stepNotJump,
              selected |-> element,
              focused |-> focusClosest(doc, element)]

StepBodies == {WalkNode("body", 0, TRUE, TRUE), WalkNode("body", 2, TRUE, TRUE)}
StepKinds ==
    {WalkNode("#text", 0, FALSE, FALSE), WalkNode("div", 0, TRUE, TRUE),
     WalkNode("div", 1, TRUE, TRUE), WalkNode("div", 2, TRUE, FALSE),
     WalkNode("div", 1, FALSE, FALSE)}

StepInit ==
    /\ wkDoc \in WalkDocuments(StepBodies, StepKinds)
    /\ wkSelected = 0
    /\ wkFocused = 0
    /\ wkWalker = WalkerIdle
    /\ wkResult = NoStep

\* The user puts the selection and the focus somewhere in the document.
UserSelects ==
    /\ \E selected \in 0..Len(wkDoc), focused \in 0..Len(wkDoc) :
           /\ focused # 0 => (focused # 1 /\ wkDoc[focused].tag # "#text"
                              /\ wkDoc[focused].focusable)
           /\ wkSelected' = selected
           /\ wkFocused' = focused
    /\ wkResult' = NoStep
    /\ UNCHANGED <<wkDoc, wkWalker>>
    /\ UNCHANGED wkOthers

Stepped(reverse, stepNotJump, term, result) ==
    /\ wkSelected' = result.selected
    /\ wkFocused' = result.focused
    /\ wkResult' = [called |-> TRUE, reverse |-> reverse, stepNotJump |-> stepNotJump,
                    term |-> term,
                    from |-> stepCurrent(wkDoc, wkSelected, wkFocused, reverse, 0),
                    element |-> result.element, container |-> result.container,
                    smooth |-> result.smooth]

\* termWalker.step(reverse, stepNotJump, term)
Step ==
    /\ \E reverse \in BOOLEAN, stepNotJump \in BOOLEAN, term \in {0} \cup WalkTerms :
           Stepped(reverse, stepNotJump, term,
                   step(wkDoc, wkSelected, wkFocused, reverse, stepNotJump, term, 0))
    /\ UNCHANGED <<wkDoc, wkWalker>>
    /\ UNCHANGED wkOthers

StepNext == UserSelects \/ Step

\* The element a walk in the direction asked comes to first: the nearest one
\* from the anchor, and when there is none up to the end of the document, the
\* nearest one from the other end.
stepExpected(accepted, reverse, from, final) ==
    IF walkerNode(reverse, accepted, from) # 0 THEN walkerNode(reverse, accepted, from)
    ELSE IF reverse THEN walkerPreviousNode(accepted, final + 1) ELSE walkerNextNode(accepted, 0)

\* C27: for every reverse, stepNotJump and anchor, when the document has a
\* visible element with a box of the term asked (of any term when none is
\* asked), step returns such an element, the first one in the direction
\* asked with at most one wrap around the document, marked and scrolled to
\* in the mode asked; it returns null only when there is no such element.
C27_StepReturnsHolder ==
    wkResult.called =>
        IF stepAccepted(wkDoc, wkResult.term) = {}
        THEN wkResult.element = 0
        ELSE /\ wkResult.element \in stepAccepted(wkDoc, wkResult.term)
             /\ wkResult.element = stepExpected(stepAccepted(wkDoc, wkResult.term),
                                                wkResult.reverse, wkResult.from,
                                                getNodeFinal(wkDoc))
             /\ wkResult.container = (IF wkResult.stepNotJump THEN 0 ELSE wkResult.element)
             /\ wkResult.smooth = ~wkResult.stepNotJump

\* -- The DOM-splitting engine's walker --

\* getContainerBlock(element): the closest element, itself included, that is
\* no flow element.
RECURSIVE getContainerBlock(_, _)
getContainerBlock(doc, element) ==
    IF doc[element].tag \in {"body", "div"} THEN element
    ELSE getContainerBlock(doc, walkParent(doc, element))

\* The filter of focusOnTermJump's walker
jumpAccepted(doc, term, selectionFocusContainer, accept) ==
    {i \in 1..Len(doc) :
        /\ doc[i].tag = "mms-h"
        /\ term # 0 => doc[i].term = term
        /\ doc[i].visible
        /\ getContainerBlock(doc, i) # selectionFocusContainer \/ accept}

\* The element selectNextElement tries to focus for the marker found
elementToSelect(doc, elementTerm) ==
    LET container == getContainerBlock(doc, walkParent(doc, elementTerm))
    IN  IF \A i \in 1..Len(doc) :
               (doc[i].tag = "mms-h" /\ i # container /\ walkContains(doc, container, i))
                   => getContainerBlock(doc, walkParent(doc, i)) = container
        THEN container
        ELSE elementTerm

\* One call of selectNextElement on the walker w: the walker it leaves, and
\* whether a marker was found.
selectNextWalked(doc, w) ==
    LET wrapAt == IF w.reverse THEN Len(doc) + 1 ELSE 1
        accepted == jumpAccepted(doc, w.term, w.container, w.accept)
        acceptedAll == jumpAccepted(doc, w.term, w.container, TRUE)
        first == walkerNode(w.reverse, accepted, w.current)
        second == walkerNode(w.reverse, accepted, wrapAt)
        third == walkerNode(w.reverse, acceptedAll, wrapAt)
    IN  IF first # 0 THEN [w EXCEPT !.current = first]
        ELSE IF second # 0 THEN [w EXCEPT !.current = second, !.wraps = @ + 1]
        ELSE IF third # 0
             THEN [w EXCEPT !.current = third, !.wraps = @ + 1, !.accept = TRUE]
             ELSE [w EXCEPT !.current = 0, !.wraps = @ + 1, !.accept = TRUE]

JumpBodies == {WalkNode("body", 0, TRUE, TRUE), WalkNode("body", 0, TRUE, FALSE)}
JumpKinds ==
    {WalkNode("#text", 0, FALSE, FALSE),
     WalkNode("div", 0, TRUE, TRUE), WalkNode("div", 0, TRUE, FALSE),
     WalkNode("mms-h", 1, TRUE, TRUE), WalkNode("mms-h", 1, TRUE, FALSE),
     WalkNode("mms-h", 2, TRUE, TRUE)}

JumpInit ==
    /\ wkDoc \in WalkDocuments(JumpBodies, JumpKinds)
    /\ wkSelected = 0
    /\ wkFocused = 0
    /\ wkWalker = WalkerIdle
    /\ wkResult = NoStep

\* focusOnTermJump(reverse, term) up to its call of selectNextElement, the
\* selection focus being at any node of the document.
focusOnTermJump ==
    /\ ~wkWalker.running
    /\ \E reverse \in BOOLEAN, term \in {0} \cup WalkTerms, selectionFocus \in 1..Len(wkDoc) :
           wkWalker' = [running |-> TRUE, reverse |-> reverse, term |-> term,
                        current |-> selectionFocus, accept |-> FALSE, wraps |-> 0,
                        container |-> getContainerBlock(wkDoc,
                            IF wkDoc[selectionFocus].tag # "#text" THEN selectionFocus
                            ELSE walkParent(wkDoc, selectionFocus))]
    /\ wkResult' = NoStep
    /\ UNCHANGED <<wkDoc, wkSelected, wkFocused>>
    /\ UNCHANGED wkOthers

\* selectNextElement returns and focusOnTermJump with it
JumpReturns(w, elementSelected) ==
    /\ wkWalker' = [w EXCEPT !.running = FALSE]
    /\ wkResult' = [called |-> TRUE, element |-> elementSelected]
    /\ wkSelected' = IF elementSelected # 0 THEN elementSelected ELSE wkSelected
    /\ wkFocused' = elementSelected

\* selectNextElement calls itself
JumpRecurs(w) ==
    /\ wkWalker' = w
    /\ UNCHANGED <<wkResult, wkSelected, wkFocused>>

selectNextElementOn(w) ==
    IF w.current = 0 THEN JumpReturns(w, 0)
    ELSE IF wkDoc[elementToSelect(wkDoc, w.current)].focusable
         THEN JumpReturns(w, elementToSelect(wkDoc, w.current))
         ELSE JumpRecurs(w)

\* One call of selectNextElement(reverse, walker, walkSelectionFocusContainer)
selectNextElement ==
    /\ wkWalker.running
    /\ wkWalker.wraps < MaxWraps
    /\ selectNextElementOn(selectNextWalked(wkDoc, wkWalker))
    /\ UNCHANGED wkDoc
    /\ UNCHANGED wkOthers

JumpNext == focusOnTermJump \/ selectNextElement

MaxInitMessages == 4

InitMessage == 0
NoResponse == -1
Rejected == -2

\* What a message holds: a request for details only, one with more, or no
\* request for details.
MessageShapes == {"details", "detailsAndMore", "more"}

\* Object.keys(message).length after the details request has been answered and
\* deleted from the message.
keysLeft(shape) == IF shape = "details" THEN 0 ELSE 1

\* assert: a falsy condition writes one warning to the console; the call
\* returns in either case.
assert(console, condition, problem, reason) ==
    IF condition THEN console
    ELSE Append(console, [level |-> "warn", problem |-> problem, reason |-> reason])

\* A callback that goes on with whatever the request yields.
initializationReceivedAlways(message) == TRUE

\* The check of the response at the head of the callback of the request:
\* the callback goes on with a response that is not falsy.
initializationReceived(message) == message # NoResponse

\* initialize: the listener is exchanged, the response is handled, then the
\* queue is handed over from its first entry to its last.
initialize(message, queue) == <<message>> \o queue

IqInit ==
    /\ iqCount = 0
    /\ iqArrived = <<>>
    /\ messageQueue = <<>>
    /\ iqRequest = "none"
    /\ iqBody \in BOOLEAN
    /\ iqObserving = FALSE
    /\ iqListener = "uninitialized"
    /\ iqHanded = <<>>
    /\ warnings = <<>>

IqIdle == IqInit /\ iqBody = TRUE

\* chrome.runtime.onMessage delivers a message to the registered listener.
IqReceive ==
    /\ iqCount < MaxInitMessages
    /\ iqCount' = iqCount + 1
    /\ \E shape \in MessageShapes :
        IF iqListener = "initialized"
        THEN /\ iqHanded' = Append(iqHanded, iqCount + 1)
             /\ UNCHANGED <<iqArrived, messageQueue, iqRequest>>
        ELSE IF keysLeft(shape) = 0
        THEN UNCHANGED <<iqArrived, messageQueue, iqRequest, iqHanded>>
        ELSE /\ messageQueue' = <<iqCount + 1>> \o messageQueue
             /\ iqArrived' = Append(iqArrived, iqCount + 1)
             /\ iqRequest' = IF Len(messageQueue') = 1 THEN "pending" ELSE iqRequest
             /\ UNCHANGED iqHanded
    /\ UNCHANGED <<iqBody, iqObserving, iqListener, warnings>>
    /\ UNCHANGED iqOthers

\* The promise of messageSendBackground settles: with the response of the
\* background, with nothing, or with a rejection (which no handler catches).
IqRespond ==
    /\ iqRequest = "pending"
    /\ \E message \in {InitMessage, NoResponse, Rejected} :
        IF message = Rejected
        THEN /\ iqRequest' = "rejected"
             /\ UNCHANGED <<iqObserving, iqListener, iqHanded, warnings>>
        ELSE /\ iqRequest' = IF message = NoResponse THEN "empty" ELSE "answered"
             /\ warnings' = assert(warnings, initializationReceived(message),
                                   "not initialized, so highlighting remains inactive",
                                   "no init response was received")
             /\ IF ~initializationReceived(message)
                THEN UNCHANGED <<iqObserving, iqListener, iqHanded>>
                ELSE IF iqBody
                THEN /\ iqListener' = "initialized"
                     /\ iqHanded' = initialize(message, messageQueue)
                     /\ UNCHANGED iqObserving
                ELSE /\ iqObserving' = TRUE
                     /\ UNCHANGED <<iqListener, iqHanded>>
    /\ UNCHANGED <<iqCount, iqArrived, messageQueue, iqBody>>
    /\ UNCHANGED iqOthers

\* The parser adds the body to the document element; the observer, when
\* it is connected, disconnects and initializes.
IqBodyAppears ==
    /\ ~iqBody
    /\ iqBody' = TRUE
    /\ IF iqObserving
       THEN /\ iqObserving' = FALSE
            /\ iqListener' = "initialized"
            /\ iqHanded' = initialize(IF iqRequest = "empty" THEN NoResponse ELSE InitMessage,
                                      messageQueue)
       ELSE UNCHANGED <<iqObserving, iqListener, iqHanded>>
    /\ UNCHANGED <<iqCount, iqArrived, messageQueue, iqRequest, warnings>>
    /\ UNCHANGED iqOthers

IqNext == IqReceive \/ IqRespond \/ IqBodyAppears

\* C31: when the initialization request is answered with nothing, no message
\* has been handed to messageHandleHighlight (so no engine is made and no
\* highlighting begins), the uninitialized listener stays, no observer waits
\* for the body, and the failure is on the console as one warning; nothing
\* but warnings is produced.
C31_NoResponseNoHighlighting ==
    iqRequest = "empty" =>
        /\ iqHanded = <<>>
        /\ iqListener = "uninitialized"
        /\ ~iqObserving
        /\ Len(warnings) = 1
        /\ \A i \in 1..Len(warnings) : warnings[i].level = "warn"

\* The request was answered with nothing while two messages were queued.
C31_Witness ==
    /\ iqRequest = "empty"
    /\ Len(messageQueue) >= 2
    /\ Len(warnings) = 1

\* C34: once initialized, messageHandleHighlight has been called with the
\* response of the initialization request and then with the messages kept
\* before, each once, in the order of their arrival.
C34_QueuedInArrivalOrder ==
    iqListener = "initialized" =>
        SubSeq(iqHanded, 1, 1 + Len(iqArrived)) = <<InitMessage>> \o iqArrived

(***************************************************************************)
(* The scroll markers of the DOM-splitting engine: TermMarker.insert       *)
(*                                                                         *)
(* The document is a sequence of elements in document order, each with its *)
(* depth below the body, as for the term walkers; text nodes are left out. *)
(***************************************************************************)
GutterLen == 5            \* elements of the document, the body included

GutterNode(tag, term) == [tag |-> tag, term |-> term, depth |-> 0]

GutterKinds ==
    {GutterNode("div", 0), GutterNode("span", 0)}
    \cup {GutterNode("mms-h", term) : term \in WalkTerms}

GutterShapes ==
    {shape \in [1..GutterLen -> 0..(GutterLen - 1)] :
        /\ shape[1] = 0
        /\ \A i \in 2..GutterLen : shape[i] >= 1 /\ shape[i] <= shape[i - 1] + 1}

\* A marker of the engine holds text only.
GutterDocuments ==
    {doc \in {[i \in 1..GutterLen |->
                  [(IF i = 1 THEN GutterNode("body", 0) ELSE nodes[i - 1])
                      EXCEPT !.depth = shape[i]]] :
                 nodes \in [1..(GutterLen - 1) -> GutterKinds], shape \in GutterShapes} :
        \A i \in 2..GutterLen : doc[walkParent(doc, i)].tag # "mms-h"}

\* The term lists insert is called with, and the numbers of hues.
GutterTermLists == {<<>>, <<1>>, <<2>>, <<1, 2>>, <<2, 1>>}
GutterHueCounts == {1, 2}

\* document.body.querySelectorAll of the selector made of the terms up to the
\* hue limit: the markers of these terms, in document order.
highlightsOfTerms(doc, terms, hueCount) ==
    LET allowed == {terms[i] : i \in 1..Min(Len(terms), hueCount)}
    IN  SelectSeq([i \in 1..Len(doc) |-> i],
                  LAMBDA i : doc[i].tag = "mms-h" /\ doc[i].term \in allowed)

\* An entry search that finds nothing.
findIndexContainedNone(doc, containersInfo, container) == 0

\* containersInfo.findIndex(containerInfo => container.contains(containerInfo.container)),
\* counted from 1, 0 when there is none
findIndexContained(doc, containersInfo, container) ==
    LET found == {k \in 1..Len(containersInfo) :
                     walkContains(doc, container, containersInfo[k].container)}
    IN  IF found = {} THEN 0 ELSE SetMin(found)

\* One turn of the loop of insert for a highlight: the entries of
\* containersInfo and the markers written after it.
insertTurn(doc, highlight, containersInfo, markers) ==
    LET container == getContainerBlock(doc, highlight)
        containerIdx == findIndexContained(doc, containersInfo, container)
        term == doc[highlight].term
        entry == [container |-> container, termsAdded |-> {term}]
    IN  IF containerIdx # 0
        THEN IF containersInfo[containerIdx].container = container
             THEN IF term \in containersInfo[containerIdx].termsAdded
                  THEN [containersInfo |-> containersInfo, markers |-> markers]
                  ELSE LET termsAddedCount ==
                               Cardinality(containersInfo[containerIdx].termsAdded)
                       IN  [containersInfo |->
                                [containersInfo EXCEPT
                                    ![containerIdx].termsAdded = @ \cup {term}],
                            markers |->
                                Append(markers, [container |-> container, term |-> term,
                                                 offset |-> termsAddedCount * 5])]
             ELSE [containersInfo |->
                       Append(SubSeq(containersInfo, 1, containerIdx - 1), entry),
                   markers |->
                       Append(markers, [container |-> container, term |-> term, offset |-> 0])]
        ELSE [containersInfo |-> Append(containersInfo, entry),
              markers |->
                  Append(markers, [container |-> container, term |-> term, offset |-> 0])]

RECURSIVE insertLoop(_, _, _)
insertLoop(doc, highlights, state) ==
    IF highlights = <<>> THEN state.markers
    ELSE insertLoop(doc, Tail(highlights),
                    insertTurn(doc, Head(highlights), state.containersInfo, state.markers))

\* The children of the gutter after insert(terms, hues)
insertedMarkers(doc, terms, hueCount, before) ==
    IF Len(terms) = 0 THEN before
    ELSE insertLoop(doc, highlightsOfTerms(doc, terms, hueCount),
                    [containersInfo |-> <<>>, markers |-> <<>>])

TmIdle ==
    /\ tmDoc = <<>>
    /\ tmGutterAttached = FALSE
    /\ tmMarkers = <<>>

\* The marker is constructed: the gutter is put after the body.
TmInit ==
    /\ tmDoc \in GutterDocuments
    /\ tmGutterAttached = TRUE
    /\ tmMarkers = <<>>

\* TermMarker.insert(terms, hues)
TmInsert ==
    /\ \E terms \in GutterTermLists, hueCount \in GutterHueCounts :
           tmMarkers' = insertedMarkers(tmDoc, terms, hueCount, tmMarkers)
    /\ UNCHANGED <<tmDoc, tmGutterAttached>>
    /\ UNCHANGED tmOthers

\* TermMarker.deactivate()
TmDeactivate ==
    /\ tmGutterAttached
    /\ tmGutterAttached' = FALSE
    /\ UNCHANGED <<tmDoc, tmMarkers>>
    /\ UNCHANGED tmOthers

TmNext == TmInsert \/ TmDeactivate

\* The first marker of the document that has the container and the term.
firstHighlightOf(doc, container, term) ==
    SetMin({i \in 1..Len(doc) : /\ doc[i].tag = "mms-h"
                                /\ doc[i].term = term
                                /\ getContainerBlock(doc, i) = container})

\* C33: the gutter holds at most one indicator for a container and a term,
\* and the indicators of one container have, in the order of the gutter, the
\* offsets 0, 5, 10, ... px, this order being the one in which their terms
\* are first met in the document.
C33_OneIndicatorStackedInOrder ==
    \A i \in 1..Len(tmMarkers) :
        LET same == {j \in 1..(i - 1) : tmMarkers[j].container = tmMarkers[i].container}
        IN  /\ \A j \in same : tmMarkers[j].term # tmMarkers[i].term
            /\ tmMarkers[i].offset = 5 * Cardinality(same)
            /\ \A j \in same :
                   firstHighlightOf(tmDoc, tmMarkers[j].container, tmMarkers[j].term)
                       < firstHighlightOf(tmDoc, tmMarkers[i].container, tmMarkers[i].term)

\* A container has its two indicators at 0 and 5 px, and between them in the
\* gutter stands the indicator of a container inside it.
C33_Witness ==
    \E i, j, k \in 1..Len(tmMarkers) :
        /\ i < k /\ k < j
        /\ tmMarkers[i].container = tmMarkers[j].container
        /\ tmMarkers[i].offset = 0 /\ tmMarkers[j].offset = 5
        /\ tmMarkers[k].container # tmMarkers[i].container
        /\ walkContains(tmDoc, tmMarkers[i].container, tmMarkers[k].container)

(***************************************************************************)
(* The overlay (PAINT) engine's style rules, and its successors            *)
(*                                                                         *)
(* No anchor element is in the documents, so getAncestorHighlightable of   *)
(* an element's first child is the element, and every element with INFO is *)
(* paintable: the boxes an element owns are those of its own flows.  Every *)
(* span cached is taken to be rendered, and so to yield a box.  The page   *)
(* does not change the document here.                                      *)
(***************************************************************************)

\* What no specification of the other engines touches.
paintOthers == <<rcVars, mhVars, mgVars, elVars, fnVars, obVars, wkVars, mkVars, iqVars, tmVars, cmVars>>
cmOthers == <<rcVars, mhVars, mgVars, ptVars, elVars, fnVars, obVars, wkVars, mkVars, iqVars, tmVars, stVars>>

StIdle ==
    /\ elementStyleRuleMap = {}
    /\ styleSheet = {}
    /\ elementsVisible = {}
    /\ styleApplied = FALSE

\* getBoxesOwned(element, element, range).length > 0
yieldsBoxes(info, element) ==
    /\ info[element].has
    /\ \E k \in 1..Len(info[element].flows) : info[element].flows[k].boxesInfo # <<>>

\* cacheStyleRulesFor(element, recurse, ...): the elements of the rule map
\* after the call
RECURSIVE cacheStyleRulesFor(_, _, _, _)
RECURSIVE cacheStyleRulesForEach(_, _, _)
cacheStyleRulesFor(ruleMap, info, element, recurse) ==
    LET cached == IF yieldsBoxes(info, element) THEN ruleMap \cup {element} ELSE ruleMap
    IN  IF recurse
        THEN cacheStyleRulesForEach(cached, info,
                 SelectSeq(children(element), LAMBDA child : info[child].has))
        ELSE cached

cacheStyleRulesForEach(ruleMap, info, elements) ==
    IF elements = <<>> THEN ruleMap
    ELSE cacheStyleRulesForEach(cacheStyleRulesFor(ruleMap, info, Head(elements), TRUE),
                                info, Tail(elements))

\* for (const ancestor of new Set(elementsVisible...)) cacheStyleRulesFor(ancestor, false, ...)
RECURSIVE cacheStyleRulesOfVisible(_, _, _)
cacheStyleRulesOfVisible(ruleMap, info, visible) ==
    IF visible = {} THEN ruleMap
    ELSE LET element == CHOOSE e \in visible : TRUE
         IN  cacheStyleRulesOfVisible(cacheStyleRulesFor(ruleMap, info, element, FALSE),
                                      info, visible \ {element})

\* The elements the visibility observer observes: styleUpdates.observe is
\* called for an element whenever a flow with boxes is cached for it, which
\* is when it is given its id if it has none.
styleObserved == {e \in Elements : elementInfo[e].id # -1 /\ InDocument(e)}

StStartWith(terms, hues, calculated) ==
    /\ elementInfo' = calculated.info
    /\ highlightingIds' = calculated.ids
    /\ ptTerms' = terms
    /\ ptHues' = hues
    /\ ptObserving' = (calculated.threw => ptObserving)
    /\ ptPhase' = IF calculated.threw THEN "failed" ELSE "started"
    /\ processed' = <<>>
    /\ ptRepeat' = IF ptRepeat >= 1 /\ terms = ptTerms /\ hues = ptHues THEN 2 ELSE 1
    /\ IF calculated.threw
       THEN /\ styleApplied' = FALSE
            /\ UNCHANGED <<elementStyleRuleMap, styleSheet>>
       ELSE /\ elementStyleRuleMap' =
                   cacheStyleRulesOfVisible(elementStyleRuleMap, calculated.info, elementsVisible)
            /\ styleSheet' = elementStyleRuleMap'
            /\ styleApplied' = TRUE
    /\ UNCHANGED <<attached, text, records, elementsVisible, paintOthers>>

\* startHighlighting(terms, hues), to its end
StStart ==
    /\ ptPhase # "absent"
    /\ \E terms \in TermLists, hues \in HueLists :
           StStartWith(terms, hues,
               calculateBoxesInfo(
                   removeBoxesInfoForTerms(extendCache(Cache, Body), termsToPurge(terms)),
                   terms, Body))

\* endHighlighting()
StEnd ==
    /\ ptPhase # "absent"
    /\ LET removed == removeBoxesInfoForTerms(extendCache(Cache, Body), <<>>)
       IN  /\ elementInfo' = removed.info
           /\ highlightingIds' = removed.ids
    /\ ptTerms' = <<>>
    /\ ptHues' = <<>>
    /\ ptPhase' = "ended"
    /\ processed' = <<>>
    /\ ptRepeat' = 0
    /\ styleApplied' = FALSE
    /\ UNCHANGED <<attached, text, ptObserving, records>>
    /\ UNCHANGED <<elementStyleRuleMap, styleSheet, elementsVisible, paintOthers>>

\* The callback of the visibility observer for one entry
StIntersection ==
    /\ ptPhase # "absent"
    /\ \E element \in styleObserved, isIntersecting \in BOOLEAN :
           /\ isIntersecting # (element \in elementsVisible)
           /\ IF isIntersecting
              THEN /\ elementsVisible' = elementsVisible \cup {element}
                   /\ elementStyleRuleMap' =
                          cacheStyleRulesFor(elementStyleRuleMap, elementInfo, element, FALSE)
              ELSE /\ elementsVisible' = elementsVisible \ {element}
                   /\ UNCHANGED elementStyleRuleMap
    /\ styleSheet' = elementStyleRuleMap'
    /\ styleApplied' = TRUE
    /\ UNCHANGED <<ptVars, paintOthers>>

\* The callback of the resize observer for one entry
StResize ==
    /\ \E element \in elementsVisible :
           elementStyleRuleMap' = cacheStyleRulesFor(elementStyleRuleMap, elementInfo, element, TRUE)
    /\ styleSheet' = elementStyleRuleMap'
    /\ styleApplied' = TRUE
    /\ UNCHANGED <<elementsVisible, ptVars, paintOthers>>

\* The engine manager replaces the engine by a new overlay engine:
\* deactivate() of the engine in use, then new PaintEngine(...).  The INFO of
\* the elements is kept by the elements.
StReplace ==
    /\ ptPhase # "absent"
    /\ LET removed == removeBoxesInfoForTerms(extendCache(Cache, Body), <<>>)
       IN  elementInfo' = removed.info
    /\ highlightingIds' = 0
    /\ ptTerms' = <<>>
    /\ ptHues' = <<>>
    /\ ptObserving' = FALSE
    /\ records' = <<>>
    /\ ptPhase' = "new"
    /\ processed' = <<>>
    /\ ptRepeat' = 0
    /\ elementStyleRuleMap' = {}
    /\ styleSheet' = {}
    /\ elementsVisible' = {}
    /\ styleApplied' = FALSE
    /\ UNCHANGED <<attached, text, paintOthers>>

StNext == StStart \/ StEnd \/ StIntersection \/ StResize \/ StReplace

\* C36: when the engine has applied its style rules, and after
\* endHighlighting, the style sheet holds a rule only for elements that
\* yield a box: an element whose spans are gone has no rule left in it.
C36_RulesOnlyForBoxes ==
    (styleApplied \/ ptPhase = "ended") =>
        \A element \in styleSheet : yieldsBoxes(elementInfo, element)

\* C37: no two elements have the same id (other than none), at any time, and
\* the id an element has is never changed.
C37_IdsUniqueAndStable ==
    /\ [](\A a, b \in Elements :
             (a # b /\ elementInfo[a].id # -1) => elementInfo[a].id # elementInfo[b].id)
    /\ [][\A e \in Elements :
             elementInfo[e].id # -1 => elementInfo'[e].id = elementInfo[e].id]_vars

(***************************************************************************)
(* The command handlers: respondToCommand_factory (content.mts) and        *)
(* produceEffectOnCommandFn (the single-file content script)               *)
(*                                                                         *)
(* Of the term list only its length is kept.  A select-term command has the *)
(* index of its name (select-term-0, select-term-1, ...); the commands that *)
(* neither read nor write focusedIdx and selectModeFocus in their own case *)
(* (toggleBar, stepGlobal, focusTermInput without an index) are "other".   *)
(***************************************************************************)
MaxCommandTerms == 4      \* terms in the list of the page
MaxTermIdx == 5           \* the highest index a select-term command names

CommandHandlers == {"respondToCommand", "produceEffectOnCommand"}
CommandTypes == {"toggleSelect", "advanceGlobal", "selectTerm", "other"}
NoRead == [read |-> FALSE, idx |-> 0, length |-> 0]

\* terms[idx] is read while the list has `length` terms
readOf(idx, length) == [read |-> TRUE, idx |-> idx, length |-> length]

CmIdle ==
    /\ cmHandler = "none"
    /\ cmTermCount = 0
    /\ focusedIdx = 0
    /\ focusedIsNull = TRUE
    /\ selectModeFocus = FALSE
    /\ cmRead = NoRead

\* The handler is made: focusedIdx is null in respondToCommand_factory and 0
\* in produceEffectOnCommandFn.
CmInit ==
    /\ cmHandler \in CommandHandlers
    /\ cmTermCount \in 0..MaxCommandTerms
    /\ focusedIdx = 0
    /\ focusedIsNull = (cmHandler = "respondToCommand")
    /\ selectModeFocus = FALSE
    /\ cmRead = NoRead

\* The term list of the page is replaced or edited.
CmTermsChange ==
    /\ \E count \in 0..MaxCommandTerms :
           /\ count # cmTermCount
           /\ cmTermCount' = count
    /\ cmRead' = NoRead
    /\ UNCHANGED <<cmHandler, focusedIdx, focusedIsNull, selectModeFocus>>
    /\ UNCHANGED cmOthers

\* getFocusedIdx(idx) of produceEffectOnCommandFn
getFocusedIdx(idx) == Min(cmTermCount - 1, idx)

\* The head of the handler of respondToCommand_factory: the index of the
\* command is taken, and an index at or beyond the end of the list is
\* dropped.  Gives <<focusedIdx, focusedIdx is null>>.
focusedAfterHead(type, termIdx) ==
    LET idx == IF type = "selectTerm" THEN termIdx ELSE focusedIdx
        isNull == IF type = "selectTerm" THEN FALSE ELSE focusedIsNull
    IN  IF ~isNull /\ idx >= cmTermCount THEN <<focusedIdx, TRUE>> ELSE <<idx, isNull>>

\* (commandInfo) => { ... } of respondToCommand_factory
respondToCommand(type, termIdx) ==
    LET focused == focusedAfterHead(type, termIdx) IN
    /\ focusedIdx' = focused[1]
    /\ focusedIsNull' = focused[2]
    /\ selectModeFocus' = IF type = "toggleSelect" THEN ~selectModeFocus ELSE selectModeFocus
    /\ cmRead' = IF type = "advanceGlobal" /\ selectModeFocus /\ ~focused[2]
                 THEN readOf(focused[1], cmTermCount)
                 ELSE IF type = "selectTerm" /\ ~focused[2]
                 THEN readOf(focused[1], cmTermCount)
                 ELSE NoRead

\* One turn of the loop of produceEffectOnCommandFn, for a command
produceEffectOnCommand(type, termIdx) ==
    LET clamped == getFocusedIdx(focusedIdx)
        selected == getFocusedIdx(termIdx)
    IN  /\ focusedIdx' = IF type = "selectTerm" THEN selected ELSE clamped
        /\ UNCHANGED focusedIsNull
        /\ selectModeFocus' = IF type = "toggleSelect" THEN ~selectModeFocus ELSE selectModeFocus
        /\ cmRead' = IF type = "advanceGlobal" /\ selectModeFocus
                     THEN readOf(clamped, cmTermCount)
                     ELSE IF type = "selectTerm"
                     THEN readOf(selected, cmTermCount)
                     ELSE NoRead

\* The content script is sent a command.
CmCommand ==
    /\ \E type \in CommandTypes, termIdx \in 0..MaxTermIdx :
           IF cmHandler = "respondToCommand"
           THEN respondToCommand(type, termIdx)
           ELSE produceEffectOnCommand(type, termIdx)
    /\ UNCHANGED <<cmHandler, cmTermCount>>
    /\ UNCHANGED cmOthers

CmNext == CmTermsChange \/ CmCommand

\* C38: whenever a command reads terms[focusedIdx], focusedIdx is an index of
\* the list, 0 <= focusedIdx < terms.length, also when the list is empty or
\* has become shorter since the index was set.
C38_FocusedIdxInRange ==
    cmRead.read => (0 <= cmRead.idx /\ cmRead.idx < cmRead.length)

(***************************************************************************)
(* Specifications                                                          *)
(***************************************************************************)

\* The request coalescer alone.
CallInit == RcInit /\ MhIdle /\ MgInit /\ CmIdle /\ StIdle /\ TmIdle /\ IqIdle /\ PtIdle /\ ElIdle /\ FnIdle /\ ObIdle /\ WkIdle /\ MkIdle
SpecCall == CallInit /\ [][RcNext]_vars

\* The content script's message handler alone.
MsgInit == MhInit /\ RcIdle /\ MgInit /\ CmIdle /\ StIdle /\ TmIdle /\ IqIdle /\ PtIdle /\ ElIdle /\ FnIdle /\ ObIdle /\ WkIdle /\ MkIdle
SpecMsg == MsgInit /\ [][MhNext]_vars

\* The EngineManager alone.
MgrInit == MgInit /\ CmIdle /\ StIdle /\ TmIdle /\ IqIdle /\ RcIdle /\ MhIdle /\ PtIdle /\ ElIdle /\ FnIdle /\ ObIdle /\ WkIdle /\ MkIdle
SpecMgr == MgrInit /\ [][MgNext]_vars

\* The overlay (PAINT) engine over a document that page scripts change.
PaintInit == PtInit /\ ElIdle /\ FnIdle /\ RcIdle /\ MhIdle /\ MgInit /\ CmIdle /\ StIdle /\ TmIdle /\ IqIdle /\ ObIdle /\ WkIdle /\ MkIdle
SpecPaint == PaintInit /\ [][PtNext]_vars

\* Either engine, constructed alone on its document.
PaintRuns == ptPhase # "absent" /\ PtNext
ElementRuns == elPhase # "absent" /\ ElNext
EnginesInit ==
    /\ (PtInit /\ ElIdle) \/ (PtIdle /\ ElInit)
    /\ FnIdle /\ RcIdle /\ MhIdle /\ MgInit /\ CmIdle /\ StIdle /\ TmIdle /\ IqIdle /\ ObIdle /\ WkIdle /\ MkIdle
SpecEngines == EnginesInit /\ [][PaintRuns \/ ElementRuns]_vars

\* The matcher on one flow, and the engine started on the same documents.
MatchInit == MtInit /\ ElIdle /\ RcIdle /\ MhIdle /\ MgInit /\ CmIdle /\ StIdle /\ TmIdle /\ IqIdle /\ ObIdle /\ WkIdle /\ MkIdle
SpecMatch == MatchInit /\ [][MtNext]_vars

\* The segmenters of the two engines alone.
SegmentInit == SegInit /\ RcIdle /\ MhIdle /\ MgInit /\ CmIdle /\ StIdle /\ TmIdle /\ IqIdle /\ ObIdle /\ WkIdle /\ MkIdle
SpecSegment == SegmentInit /\ [][SegNext]_vars

\* The overlay engine with bursts of mutations.
ChurnSpecInit == ChurnInit /\ ElIdle /\ RcIdle /\ MhIdle /\ MgInit /\ CmIdle /\ StIdle /\ TmIdle /\ IqIdle /\ ObIdle /\ WkIdle /\ MkIdle
SpecChurn == ChurnSpecInit /\ [][ChurnNext]_vars

\* The content script applying the updates of its term list, with either
\* kind of highlighting.
TermsInit ==
    /\ (PtInit /\ ElIdle) \/ (PtIdle /\ ElInit)
    /\ FnIdle /\ RcIdle /\ MhIdle /\ MgInit /\ CmIdle /\ StIdle /\ TmIdle /\ IqIdle /\ ObIdle /\ WkIdle /\ MkIdle
SpecTerms == TermsInit /\ [][TermsNext]_vars

\* The DOM-splitting engine with its mutation updates, over a document that
\* page scripts change.
ObserveSpecInit == ObserveInit /\ PtIdle /\ FnIdle /\ RcIdle /\ MhIdle /\ MgInit /\ CmIdle /\ StIdle /\ TmIdle /\ IqIdle /\ ObIdle /\ WkIdle /\ MkIdle
SpecObserve == ObserveSpecInit /\ [][ObNext]_vars

\* The same, the observer's callback and the timer of the deferred pass being
\* run whenever they are due, as the event loop does.
\* Weak fairness of ObDeliver and of ObTimer is written with their enabling
\* conditions: ObDeliver can be taken exactly when a record is queued, ObTimer
\* exactly when a pass is scheduled and no record is queued.
SpecObserveFair ==
    /\ SpecObserve
    /\ ([]<>(mutationQueue = <<>>) \/ []<><<ObDeliver>>_vars)
    /\ ([]<>(~highlightIsPending \/ mutationQueue # <<>>) \/ []<><<ObTimer>>_vars)

\* The overlay engine's term walker on small documents
StepSpecInit == StepInit /\ PtIdle /\ ElIdle /\ FnIdle /\ RcIdle /\ MhIdle /\ MgInit /\ CmIdle /\ StIdle /\ TmIdle /\ IqIdle /\ ObIdle /\ MkIdle
SpecStep == StepSpecInit /\ [][StepNext]_vars

\* The DOM-splitting engine's term walker on small documents
JumpSpecInit == JumpInit /\ PtIdle /\ ElIdle /\ FnIdle /\ RcIdle /\ MhIdle /\ MgInit /\ CmIdle /\ StIdle /\ TmIdle /\ IqIdle /\ ObIdle /\ MkIdle
SpecJump == JumpSpecInit /\ [][JumpNext]_vars

\* The DOM-splitting engine marking small documents
MarkSpecInit == MarkInit /\ PtIdle /\ FnIdle /\ RcIdle /\ MhIdle /\ MgInit /\ CmIdle /\ StIdle /\ TmIdle /\ IqIdle /\ ObIdle /\ WkIdle
SpecMark == MarkSpecInit /\ [][MarkNext]_vars

\* The request coalescer given one burst of requests
SpecBurst == CallInit /\ [][BurstNext]_vars

\* The content script before it is initialized.
InitQueueInit == IqInit /\ PtIdle /\ ElIdle /\ FnIdle /\ RcIdle /\ MhIdle /\ MgInit /\ CmIdle /\ StIdle /\ TmIdle /\ ObIdle /\ WkIdle /\ MkIdle
SpecInit == InitQueueInit /\ [][IqNext]_vars

\* The scroll markers of the DOM-splitting engine on small documents
GutterInit == TmInit /\ PtIdle /\ ElIdle /\ FnIdle /\ RcIdle /\ MhIdle /\ MgInit /\ CmIdle /\ StIdle /\ IqIdle /\ ObIdle /\ WkIdle /\ MkIdle
SpecGutter == GutterInit /\ [][TmNext]_vars

\* The overlay engine with its style rules, and the engines that replace it
StyleInit == PtInit /\ StIdle /\ ElIdle /\ FnIdle /\ RcIdle /\ MhIdle /\ MgInit /\ CmIdle /\ TmIdle /\ IqIdle /\ ObIdle /\ WkIdle /\ MkIdle
SpecStyle == StyleInit /\ [][StNext]_vars

\* The command handlers of the content scripts
CommandInit == CmInit /\ PtIdle /\ StIdle /\ ElIdle /\ FnIdle /\ RcIdle /\ MhIdle /\ MgInit /\ TmIdle /\ IqIdle /\ ObIdle /\ WkIdle /\ MkIdle
SpecCommand == CommandInit /\ [][CmNext]_vars

====
